---- MODULE Spec2Model ----
(***************************************************************************)
(* MDS (Memfault Diagnostic Service) over HID.                             *)
(*                                                                         *)
(* Host side: the MDS session of mds_protocol.c on top of the report       *)
(* channel of memfault_hid.c (hidapi below it is the environment).         *)
(* Device side: the firmware of app/src/main.c (set_report callback and    *)
(* main loop).                                                             *)
(*                                                                         *)
(* Spec      the host session driven by an application, the channel's      *)
(*           hidapi results and the input reports chosen by the            *)
(*           environment.                                                  *)
(* SpecLink  the host's stream control connected to the device firmware.   *)
(* SpecStream stream data reception and chunk upload on a session.         *)
(* SpecConfig reading the device configuration through feature reports.    *)
(* SpecApi   the buffer-based API functions on caller-supplied arguments.  *)
(* SpecArgs  the packet read with caller-supplied pointer arguments.       *)
(* SpecRead  a packet read in time, hidapi's waiting included.             *)
(* SpecCodec the wire codec applied to report bodies.                      *)
(* SpecDevice the firmware's main loop beside the USB stack's callbacks.   *)
(* SpecFilter the four report channels under every report-ID filter.       *)
(* SpecSession every session operation, from the session's creation.       *)
(* SpecChunk a chunk from the device's packetizer to the host's sink.      *)
(* SpecBuffer the channel's internal report buffer under the session's     *)
(*           requests.                                                     *)
(* SpecUploader the HTTP uploader's callback and statistics.               *)
(***************************************************************************)
EXTENDS Integers, Sequences, FiniteSets, TLC

VARIABLES
    alive,          \* the mds_session_t exists (created and not yet freed)
    session,        \* struct mds_session
    filter,         \* struct memfault_hid_device: filter
    nCalls,         \* API calls on the session since it was created (saturating)
    lastCall,       \* the most recent API call on the session: inputs and results
    mds,            \* device: struct mds_state
    wire,           \* set-report requests sent by the host, not yet handled
    lastSetReport,  \* device: the most recent mds_set_report call and its result
    hidapi,         \* the hidapi handle: blocking mode, queued input report, read in progress
    mainThread,     \* device: main()'s loop position, the report it builds, reports submitted
    uploader        \* struct mds_uploader: stats, and the validated calls since the last reset

vars == <<alive, session, filter, nCalls, lastCall, mds, wire, lastSetReport, hidapi,
          mainThread, uploader>>

devVars == <<mds, wire, lastSetReport>>

(***************************************************************************)
(* Bounds of the model                                                     *)
(***************************************************************************)
MaxCalls == 3       \* nCalls saturates here ("MaxCalls or more")
MaxWire == 2        \* set-report requests in flight
MaxWait == 2        \* milliseconds a blocked read is followed for
MaxStrLen == 3      \* length of the enumerated string buffers

(***************************************************************************)
(* Program constants                                                       *)
(***************************************************************************)
MDS_REPORT_ID_SUPPORTED_FEATURES == 1
MDS_REPORT_ID_DEVICE_IDENTIFIER == 2
MDS_REPORT_ID_DATA_URI == 3
MDS_REPORT_ID_AUTHORIZATION == 4
MDS_REPORT_ID_STREAM_CONTROL == 5
MDS_REPORT_ID_STREAM_DATA == 6
MDS_MAX_DEVICE_ID_LEN == 64
MDS_MAX_URI_LEN == 128
MDS_MAX_AUTH_LEN == 128
MDS_MAX_CHUNK_DATA_LEN == 63
MDS_STREAM_MODE_DISABLED == 0
MDS_STREAM_MODE_ENABLED == 1
MDS_SEQUENCE_MASK == 31
MDS_SEQUENCE_MAX == 31

MEMFAULT_HID_MAX_REPORT_SIZE == 64
MEMFAULT_HID_ERROR_INVALID_PARAM == 0 - 1
MEMFAULT_HID_ERROR_IO == 0 - 5
MEMFAULT_HID_ERROR_TIMEOUT == 0 - 6
MEMFAULT_HID_ERROR_INVALID_REPORT_TYPE == 0 - 11
EIO == 5
EINVAL == 22
ENOMEM == 12
ENOTSUP == 134

HID_REPORT_TYPE_OUTPUT == 2
HID_REPORT_TYPE_FEATURE == 3

NULL == "NULL"

(***************************************************************************)
(* C arithmetic                                                            *)
(***************************************************************************)
RECURSIVE BitAnd(_, _)
BitAnd(a, b) ==
    IF a = 0 \/ b = 0 THEN 0
    ELSE (a % 2) * (b % 2) + 2 * BitAnd(a \div 2, b \div 2)

(***************************************************************************)
(* Wire codec and sequence tracker (mds_protocol.c, mds_protocol.h)        *)
(***************************************************************************)
\* Faulty variant: only four bits of the sequence are kept.
mds_extract_sequence_FourBits(byte0) == BitAnd(byte0, 15)

mds_extract_sequence(byte0) == BitAnd(byte0, MDS_SEQUENCE_MASK)

\* Faulty variant: the successor is computed without the 5-bit wrap.
mds_validate_sequence_NoWrap(prev_seq, new_seq) == new_seq = prev_seq + 1

mds_validate_sequence(prev_seq, new_seq) ==
    LET expected == BitAnd(prev_seq + 1, MDS_SEQUENCE_MASK)
    IN  new_seq = expected

\* The packet of a failed parse: the caller's mds_stream_packet_t is not filled.
NoPacket == [sequence |-> -1, data |-> <<>>, data_len |-> -1]

\* Faulty variant: the data length is not clamped to the packet's array.
mds_parse_stream_packet_NoClamp(buffer, buffer_len) ==
    IF buffer_len < 1
    THEN [ret |-> -EINVAL, packet |-> NoPacket]
    ELSE [ret |-> 0,
          packet |-> [sequence |-> mds_extract_sequence(buffer[1]),
                      data     |-> SubSeq(buffer, 2, buffer_len),
                      data_len |-> buffer_len - 1]]

\* Faulty variant: the payload is copied from the sequence byte on.
mds_parse_stream_packet_FromByte0(buffer, buffer_len) ==
    IF buffer_len < 1
    THEN [ret |-> -EINVAL, packet |-> NoPacket]
    ELSE LET data_len == IF buffer_len - 1 > MDS_MAX_CHUNK_DATA_LEN
                         THEN MDS_MAX_CHUNK_DATA_LEN
                         ELSE buffer_len - 1
         IN  [ret |-> 0,
              packet |-> [sequence |-> mds_extract_sequence(buffer[1]),
                          data     |-> SubSeq(buffer, 1, data_len),
                          data_len |-> data_len]]

mds_parse_stream_packet(buffer, buffer_len) ==
    IF buffer_len < 1
    THEN [ret |-> -EINVAL, packet |-> NoPacket]
    ELSE LET data_len == IF buffer_len - 1 > MDS_MAX_CHUNK_DATA_LEN
                         THEN MDS_MAX_CHUNK_DATA_LEN
                         ELSE buffer_len - 1
         IN  [ret |-> 0,
              packet |-> [sequence |-> mds_extract_sequence(buffer[1]),
                          data     |-> SubSeq(buffer, 2, 1 + data_len),
                          data_len |-> data_len]]

\* Faulty variant: the capacity of the destination is not looked at.
mds_build_stream_control_NoCheck(enable, buffer_len) ==
    [ret |-> 1,
     buffer |-> << IF enable THEN MDS_STREAM_MODE_ENABLED
                             ELSE MDS_STREAM_MODE_DISABLED >>]

\* Faulty variant: the two mode bytes are exchanged.
mds_build_stream_control_Swapped(enable, buffer_len) ==
    IF buffer_len < 1
    THEN [ret |-> -EINVAL, buffer |-> <<>>]
    ELSE [ret |-> 1,
          buffer |-> << IF enable THEN MDS_STREAM_MODE_DISABLED
                                  ELSE MDS_STREAM_MODE_ENABLED >>]

mds_build_stream_control(enable, buffer_len) ==
    IF buffer_len < 1
    THEN [ret |-> -EINVAL, buffer |-> <<>>]
    ELSE [ret |-> 1,
          buffer |-> << IF enable THEN MDS_STREAM_MODE_ENABLED
                                  ELSE MDS_STREAM_MODE_DISABLED >>]

(***************************************************************************)
(* Report channel (memfault_hid.c).  hidapi is the environment: the value  *)
(* a hid_write / hid_read call returns is an input of the operation.       *)
(***************************************************************************)
NoFilter == [filter_enabled |-> FALSE, report_ids |-> <<>>]

\* Faulty variant: the list is consulted even when the filter is disabled.
is_report_filtered_IgnoresEnabled(f, report_id) ==
    ~(\E i \in 1..Len(f.report_ids) : f.report_ids[i] = report_id)

is_report_filtered(f, report_id) ==
    IF ~f.filter_enabled
    THEN FALSE
    ELSE ~(\E i \in 1..Len(f.report_ids) : f.report_ids[i] = report_id)

\* hid_result: what hid_write returns (bytes written, or -1).
\* The result records the call: its report ID and data, whether hid_write was
\* called (io), the bytes handed to it (buffer) and the value returned (ret).
memfault_hid_write_report(device, f, report_id, data, length, hid_result) ==
    LET call == [report_id |-> report_id, data |-> SubSeq(data, 1, length)]
    IN  IF device = NULL
        THEN call @@ [ret |-> MEMFAULT_HID_ERROR_INVALID_PARAM, io |-> FALSE,
                      buffer |-> <<>>]
        ELSE IF is_report_filtered(f, report_id)
        THEN call @@ [ret |-> MEMFAULT_HID_ERROR_INVALID_REPORT_TYPE, io |-> FALSE,
                      buffer |-> <<>>]
        ELSE LET buffer == <<report_id>> \o SubSeq(data, 1, length)
             IN  IF hid_result < 0
                 THEN call @@ [ret |-> MEMFAULT_HID_ERROR_IO, io |-> TRUE,
                               buffer |-> buffer]
                 ELSE call @@ [ret |-> hid_result - 1, io |-> TRUE,
                               buffer |-> buffer]

\* hid: [result, buffer], what hid_read / hid_read_timeout returns and the
\* bytes it stored (report ID first).  fn: the hidapi function called.
memfault_hid_read_report(device, f, length, timeout_ms, hid) ==
    IF device = NULL
    THEN [ret |-> MEMFAULT_HID_ERROR_INVALID_PARAM, io |-> FALSE, fn |-> "none",
          report_id |-> -1, data |-> <<>>]
    ELSE LET fn == IF timeout_ms = 0 THEN "hid_read" ELSE "hid_read_timeout"
         IN  IF hid.result < 0
             THEN [ret |-> MEMFAULT_HID_ERROR_IO, io |-> TRUE, fn |-> fn,
                   report_id |-> -1, data |-> <<>>]
             ELSE IF hid.result = 0
             THEN [ret |-> MEMFAULT_HID_ERROR_TIMEOUT, io |-> TRUE, fn |-> fn,
                   report_id |-> -1, data |-> <<>>]
             ELSE LET rid == hid.buffer[1]
                  IN  IF is_report_filtered(f, rid)
                      THEN [ret |-> MEMFAULT_HID_ERROR_INVALID_REPORT_TYPE, io |-> TRUE,
                            fn |-> fn, report_id |-> -1, data |-> <<>>]
                      ELSE LET data_len == IF hid.result - 1 > length
                                           THEN length
                                           ELSE hid.result - 1
                           IN  [ret |-> data_len, io |-> TRUE, fn |-> fn,
                                report_id |-> rid,
                                data |-> SubSeq(hid.buffer, 2, 1 + data_len)]

\* hid_result: what hid_send_feature_report returns.
memfault_hid_set_feature_report(device, f, report_id, data, length, hid_result) ==
    LET call == [report_id |-> report_id, data |-> SubSeq(data, 1, length)]
    IN  IF device = NULL
        THEN call @@ [ret |-> MEMFAULT_HID_ERROR_INVALID_PARAM, io |-> FALSE,
                      buffer |-> <<>>]
        ELSE IF is_report_filtered(f, report_id)
        THEN call @@ [ret |-> MEMFAULT_HID_ERROR_INVALID_REPORT_TYPE, io |-> FALSE,
                      buffer |-> <<>>]
        ELSE LET buffer == <<report_id>> \o SubSeq(data, 1, length)
             IN  IF hid_result < 0
                 THEN call @@ [ret |-> MEMFAULT_HID_ERROR_IO, io |-> TRUE,
                               buffer |-> buffer]
                 ELSE call @@ [ret |-> hid_result - 1, io |-> TRUE,
                               buffer |-> buffer]

(***************************************************************************)
(* MDS session (mds_protocol.c).  Each operator is one API function on an  *)
(* existing session s; it yields the return value, the session afterwards  *)
(* and what the call did: writes are its memfault_hid_write_report calls,  *)
(* reads the number of hid reads, sink its upload callback invocations.    *)
(***************************************************************************)
\* Faulty variant: the session is left as calloc zeroed it.
mds_session_create_Zeroed(device) ==
    [device |-> device, last_sequence |-> 0, streaming_enabled |-> FALSE,
     upload_callback |-> NULL, upload_user_data |-> NULL]

mds_session_create(device) ==
    [device |-> device,
     last_sequence |-> MDS_SEQUENCE_MAX,
     streaming_enabled |-> FALSE,
     upload_callback |-> NULL,
     upload_user_data |-> NULL]

\* Faulty variant: the flag is set before the channel's result is looked at.
mds_stream_enable_SetsFirst(s, f, hid_result) ==
    LET b == mds_build_stream_control(TRUE, 1)
        w == memfault_hid_write_report(s.device, f,
                 MDS_REPORT_ID_STREAM_CONTROL, b.buffer, b.ret, hid_result)
    IN  [ret |-> IF w.ret < 0 THEN w.ret ELSE 0,
         session |-> [s EXCEPT !.streaming_enabled = TRUE],
         writes |-> <<w>>]

mds_stream_enable(s, f, hid_result) ==
    LET b == mds_build_stream_control(TRUE, 1)
    IN  IF b.ret < 0
        THEN [ret |-> b.ret, session |-> s, writes |-> <<>>]
        ELSE LET w == memfault_hid_write_report(s.device, f,
                          MDS_REPORT_ID_STREAM_CONTROL, b.buffer, b.ret, hid_result)
             IN  IF w.ret < 0
                 THEN [ret |-> w.ret, session |-> s, writes |-> <<w>>]
                 ELSE [ret |-> 0,
                       session |-> [s EXCEPT !.streaming_enabled = TRUE],
                       writes |-> <<w>>]

\* Faulty variant: the flag is cleared before the channel's result is looked at.
mds_stream_disable_ClearsFirst(s, f, hid_result) ==
    LET b == mds_build_stream_control(FALSE, 1)
        w == memfault_hid_write_report(s.device, f,
                 MDS_REPORT_ID_STREAM_CONTROL, b.buffer, b.ret, hid_result)
    IN  [ret |-> IF w.ret < 0 THEN w.ret ELSE 0,
         session |-> [s EXCEPT !.streaming_enabled = FALSE],
         writes |-> <<w>>]

mds_stream_disable(s, f, hid_result) ==
    LET b == mds_build_stream_control(FALSE, 1)
    IN  IF b.ret < 0
        THEN [ret |-> b.ret, session |-> s, writes |-> <<>>]
        ELSE LET w == memfault_hid_write_report(s.device, f,
                          MDS_REPORT_ID_STREAM_CONTROL, b.buffer, b.ret, hid_result)
             IN  IF w.ret < 0
                 THEN [ret |-> w.ret, session |-> s, writes |-> <<w>>]
                 ELSE [ret |-> 0,
                       session |-> [s EXCEPT !.streaming_enabled = FALSE],
                       writes |-> <<w>>]

\* Faulty variant: last_sequence advances only for a packet that is the successor.
mds_stream_read_packet_OnlyValid(s, f, timeout_ms, hid) ==
    LET r == memfault_hid_read_report(s.device, f, MDS_MAX_CHUNK_DATA_LEN + 1,
                                      timeout_ms, hid)
        reads == IF r.io THEN 1 ELSE 0
    IN  IF r.ret < 0
        THEN [ret |-> r.ret, session |-> s, packet |-> NoPacket, reads |-> reads]
        ELSE IF r.report_id # MDS_REPORT_ID_STREAM_DATA
        THEN [ret |-> -EINVAL, session |-> s, packet |-> NoPacket, reads |-> reads]
        ELSE LET p == mds_parse_stream_packet(r.data, r.ret)
             IN  IF p.ret < 0
                 THEN [ret |-> p.ret, session |-> s, packet |-> NoPacket, reads |-> reads]
                 ELSE [ret |-> 0,
                       session |-> IF mds_validate_sequence(s.last_sequence,
                                                            p.packet.sequence)
                                   THEN [s EXCEPT !.last_sequence = p.packet.sequence]
                                   ELSE s,
                       packet |-> p.packet,
                       reads |-> reads]

\* Faulty variant: the session is kept when the disable on teardown fails.
mds_session_destroy_Checked(s, f, hid_result) ==
    IF s.streaming_enabled
    THEN LET r == mds_stream_disable(s, f, hid_result)
         IN  [freed |-> r.ret >= 0, session |-> r.session, writes |-> r.writes]
    ELSE [freed |-> TRUE, session |-> s, writes |-> <<>>]

\* freed: free(session) was reached; hid_result: what hid_write returns if the
\* teardown writes.
mds_session_destroy(s, f, hid_result) ==
    IF s.streaming_enabled
    THEN LET r == mds_stream_disable(s, f, hid_result)
         IN  [freed |-> TRUE, session |-> r.session, writes |-> r.writes]
    ELSE [freed |-> TRUE, session |-> s, writes |-> <<>>]

\* reads: the number of hid reads the call made.
\* Faulty variant: a failed read forgets the sequence baseline.
mds_stream_read_packet_ResetsOnError(s, f, timeout_ms, hid) ==
    LET r == memfault_hid_read_report(s.device, f, MDS_MAX_CHUNK_DATA_LEN + 1,
                                      timeout_ms, hid)
        reads == IF r.io THEN 1 ELSE 0
        s0 == [s EXCEPT !.last_sequence = MDS_SEQUENCE_MAX]
    IN  IF r.ret < 0
        THEN [ret |-> r.ret, session |-> s0, packet |-> NoPacket, reads |-> reads]
        ELSE IF r.report_id # MDS_REPORT_ID_STREAM_DATA
        THEN [ret |-> -EINVAL, session |-> s0, packet |-> NoPacket, reads |-> reads]
        ELSE LET p == mds_parse_stream_packet(r.data, r.ret)
             IN  IF p.ret < 0
                 THEN [ret |-> p.ret, session |-> s0, packet |-> NoPacket, reads |-> reads]
                 ELSE [ret |-> 0,
                       session |-> [s EXCEPT !.last_sequence = p.packet.sequence],
                       packet |-> p.packet,
                       reads |-> reads]

mds_stream_read_packet(s, f, timeout_ms, hid) ==
    LET r == memfault_hid_read_report(s.device, f, MDS_MAX_CHUNK_DATA_LEN + 1,
                                      timeout_ms, hid)
        reads == IF r.io THEN 1 ELSE 0
    IN  IF r.ret < 0
        THEN [ret |-> r.ret, session |-> s, packet |-> NoPacket, reads |-> reads]
        ELSE IF r.report_id # MDS_REPORT_ID_STREAM_DATA
        THEN [ret |-> -EINVAL, session |-> s, packet |-> NoPacket, reads |-> reads]
        ELSE LET p == mds_parse_stream_packet(r.data, r.ret)
             IN  IF p.ret < 0
                 THEN [ret |-> p.ret, session |-> s, packet |-> NoPacket, reads |-> reads]
                 ELSE [ret |-> 0,
                       session |-> [s EXCEPT !.last_sequence = p.packet.sequence],
                       packet |-> p.packet,
                       reads |-> reads]

\* Faulty variant: the context of the previous sink is kept.
mds_set_upload_callback_KeepsContext(s, callback, user_data) ==
    [ret |-> 0,
     session |-> [s EXCEPT !.upload_callback = callback,
                           !.upload_user_data =
                               IF s.upload_user_data = NULL THEN user_data ELSE @]]

\* Faulty variant: registering a sink also marks the stream disabled.
mds_set_upload_callback_StopsStream(s, callback, user_data) ==
    [ret |-> 0,
     session |-> [s EXCEPT !.upload_callback = callback,
                           !.upload_user_data = user_data,
                           !.streaming_enabled = FALSE]]

mds_set_upload_callback(s, callback, user_data) ==
    [ret |-> 0,
     session |-> [s EXCEPT !.upload_callback = callback,
                           !.upload_user_data = user_data]]

\* Faulty variant: a failed read is retried once, and a sink failure is reported as -EIO.
mds_stream_process_Retry(s, f, config, timeout_ms, hid, sink_result) ==
    LET r == mds_stream_read_packet(s, f, timeout_ms, hid)
    IN  IF r.ret < 0
        THEN [ret |-> r.ret, session |-> r.session, packet |-> r.packet,
              reads |-> r.reads + r.reads, read_ret |-> r.ret,
              checks |-> <<>>, sink |-> <<>>]
        ELSE LET s1 == r.session
                 sink == IF s1.upload_callback # NULL
                         THEN << [callback   |-> s1.upload_callback,
                                  uri        |-> config.data_uri,
                                  auth_header |-> config.authorization,
                                  chunk_data |-> r.packet.data,
                                  chunk_len  |-> r.packet.data_len,
                                  user_data  |-> s1.upload_user_data,
                                  ret        |-> sink_result] >>
                         ELSE <<>>
             IN  [ret |-> IF s1.upload_callback # NULL /\ sink_result < 0
                          THEN -EIO ELSE 0,
                  session |-> s1, packet |-> r.packet,
                  reads |-> r.reads, read_ret |-> r.ret,
                  checks |-> <<>>, sink |-> sink]

\* Faulty variant: a packet whose sequence check fails is rejected and not uploaded.
mds_stream_process_Strict(s, f, config, timeout_ms, hid, sink_result) ==
    LET r == mds_stream_read_packet(s, f, timeout_ms, hid)
    IN  IF r.ret < 0
        THEN [ret |-> r.ret, session |-> r.session, packet |-> r.packet,
              reads |-> r.reads, read_ret |-> r.ret,
              checks |-> <<>>, sink |-> <<>>]
        ELSE LET s1 == r.session
                 valid == mds_validate_sequence(s.last_sequence, r.packet.sequence)
                 checks == << [prev_seq |-> s.last_sequence,
                               new_seq  |-> r.packet.sequence,
                               valid    |-> valid] >>
                 sink == IF s1.upload_callback # NULL /\ valid
                         THEN << [callback   |-> s1.upload_callback,
                                  uri        |-> config.data_uri,
                                  auth_header |-> config.authorization,
                                  chunk_data |-> r.packet.data,
                                  chunk_len  |-> r.packet.data_len,
                                  user_data  |-> s1.upload_user_data,
                                  ret        |-> sink_result] >>
                         ELSE <<>>
             IN  [ret |-> IF ~valid THEN -EINVAL
                          ELSE IF sink # <<>> /\ sink_result < 0 THEN sink_result
                          ELSE 0,
                  session |-> s1, packet |-> r.packet,
                  reads |-> r.reads, read_ret |-> r.ret,
                  checks |-> checks, sink |-> sink]

\* sink_result: what the upload callback returns, if it is invoked.
\* read_ret: what mds_stream_read_packet returned.
\* checks: the mds_validate_sequence calls made, with their arguments and result.
\* sink: the invocations of the upload callback, with their arguments and result.
\* Faulty variant: the sink is invoked only while streaming is enabled.
mds_stream_process_OnlyEnabled(s, f, config, timeout_ms, hid, sink_result) ==
    LET r == mds_stream_read_packet(s, f, timeout_ms, hid)
    IN  IF r.ret < 0
        THEN [ret |-> r.ret, session |-> r.session, packet |-> r.packet,
              reads |-> r.reads, read_ret |-> r.ret, checks |-> <<>>, sink |-> <<>>]
        ELSE LET s1 == r.session
                 call == s1.upload_callback # NULL /\ s1.streaming_enabled
                 sink == IF call
                         THEN << [callback   |-> s1.upload_callback,
                                  uri        |-> config.data_uri,
                                  auth_header |-> config.authorization,
                                  chunk_data |-> r.packet.data,
                                  chunk_len  |-> r.packet.data_len,
                                  user_data  |-> s1.upload_user_data,
                                  ret        |-> sink_result] >>
                         ELSE <<>>
             IN  [ret |-> IF call /\ sink_result < 0 THEN sink_result ELSE 0,
                  session |-> s1, packet |-> r.packet,
                  reads |-> r.reads, read_ret |-> r.ret,
                  checks |-> <<>>, sink |-> sink]

mds_stream_process(s, f, config, timeout_ms, hid, sink_result) ==
    LET r == mds_stream_read_packet(s, f, timeout_ms, hid)
    IN  IF r.ret < 0
        THEN [ret |-> r.ret, session |-> r.session, packet |-> r.packet,
              reads |-> r.reads, read_ret |-> r.ret, checks |-> <<>>, sink |-> <<>>]
        ELSE LET s1 == r.session
                 checks == IF s1.last_sequence # MDS_SEQUENCE_MAX
                           THEN << [prev_seq |-> s1.last_sequence,
                                    new_seq  |-> r.packet.sequence,
                                    valid    |-> mds_validate_sequence(
                                                     s1.last_sequence,
                                                     r.packet.sequence)] >>
                           ELSE <<>>
                 sink == IF s1.upload_callback # NULL
                         THEN << [callback   |-> s1.upload_callback,
                                  uri        |-> config.data_uri,
                                  auth_header |-> config.authorization,
                                  chunk_data |-> r.packet.data,
                                  chunk_len  |-> r.packet.data_len,
                                  user_data  |-> s1.upload_user_data,
                                  ret        |-> sink_result] >>
                         ELSE <<>>
             IN  IF s1.upload_callback # NULL /\ sink_result < 0
                 THEN [ret |-> sink_result, session |-> s1, packet |-> r.packet,
                       reads |-> r.reads, read_ret |-> r.ret,
                       checks |-> checks, sink |-> sink]
                 ELSE [ret |-> 0, session |-> s1, packet |-> r.packet,
                       reads |-> r.reads, read_ret |-> r.ret,
                       checks |-> checks, sink |-> sink]

mds_get_last_sequence(s) == s.last_sequence

\* Faulty variant: the byte is stored unmasked.
mds_update_last_sequence_NoMask(s, sequence) ==
    [s EXCEPT !.last_sequence = sequence]

mds_update_last_sequence(s, sequence) ==
    [s EXCEPT !.last_sequence = BitAnd(sequence, MDS_SEQUENCE_MASK)]

(***************************************************************************)
(* Device firmware (app/src/main.c)                                        *)
(***************************************************************************)
\* The set_report callback: buf holds the report ID first, then the data.
\* Faulty variant: enabling the stream also resets the chunk counter.
mds_set_report_EnableResets(m, type, id, len, buf) ==
    IF type = HID_REPORT_TYPE_FEATURE /\ id = MDS_REPORT_ID_STREAM_CONTROL
    THEN IF len < 2
         THEN [ret |-> -EINVAL, mds |-> m]
         ELSE IF buf[2] = MDS_STREAM_MODE_ENABLED
         THEN [ret |-> 0, mds |-> [m EXCEPT !.streaming_enabled = TRUE,
                                            !.chunk_number = 0]]
         ELSE IF buf[2] = MDS_STREAM_MODE_DISABLED
         THEN [ret |-> 0, mds |-> [m EXCEPT !.streaming_enabled = FALSE,
                                            !.chunk_number = 0]]
         ELSE [ret |-> -EINVAL, mds |-> m]
    ELSE [ret |-> -ENOTSUP, mds |-> m]

mds_set_report(m, type, id, len, buf) ==
    IF type = HID_REPORT_TYPE_FEATURE
    THEN IF id = MDS_REPORT_ID_STREAM_CONTROL
         THEN IF len < 2
              THEN [ret |-> -EINVAL, mds |-> m]
              ELSE LET mode == buf[2]
                   IN  IF mode = MDS_STREAM_MODE_ENABLED
                       THEN [ret |-> 0, mds |-> [m EXCEPT !.streaming_enabled = TRUE]]
                       ELSE IF mode = MDS_STREAM_MODE_DISABLED
                       THEN [ret |-> 0, mds |-> [m EXCEPT !.streaming_enabled = FALSE,
                                                          !.chunk_number = 0]]
                       ELSE [ret |-> -EINVAL, mds |-> m]
         ELSE [ret |-> -ENOTSUP, mds |-> m]
    ELSE IF type # HID_REPORT_TYPE_OUTPUT
    THEN [ret |-> -ENOTSUP, mds |-> m]
    ELSE [ret |-> -ENOTSUP, mds |-> m]

mds_iface_ready(m, ready) == [m EXCEPT !.hid_ready = ready]

NoSetReport == [from |-> "none", ok |-> FALSE, type |-> 0, id |-> 0, ret |-> 0]

(***************************************************************************)
(* Inputs of the host model                                                *)
(***************************************************************************)
Devices == {NULL, "hid0"}

\* Filters an application installs with memfault_hid_set_report_filter.
Filters == {NoFilter, [filter_enabled |-> TRUE, report_ids |-> <<1, 6>>]}

\* What hid_write may return for a buffer of n bytes: -1, or the bytes written.
HidWriteResults(n) == {-1} \cup 0..n

Timeouts == {0, 100}

\* Upload callbacks an application registers, with their context.
Sinks == {[callback |-> NULL, user_data |-> NULL],
          [callback |-> "mds_uploader_callback", user_data |-> "uploader1"],
          [callback |-> "app_callback", user_data |-> "ctx2"]}

\* What an upload callback returns: 0, or a negative error code.
SinkResults == {0, -EIO, -EINVAL}

\* Device configurations the caller passes to mds_stream_process.
Configs == {[data_uri |-> "https://x/chunks/DEV123",
             authorization |-> "Memfault-Project-Key: abc"],
            [data_uri |-> "https://y/chunks/DEV9",
             authorization |-> "Other-Key: z"]}

\* Input reports as hid_read stores them: report ID, then the report's bytes
\* (sequence byte, whose high three bits are reserved, and payload).
Payload(n) == [i \in 1..n |-> (160 + 3 * i) % 256]

StreamReports ==
    {<<MDS_REPORT_ID_STREAM_DATA, b.b0>> \o Payload(b.n) :
        b \in {[b0 |-> 0, n |-> 10], [b0 |-> 1, n |-> 0], [b0 |-> 2, n |-> 63],
               [b0 |-> 31, n |-> 1], [b0 |-> 225, n |-> 10], [b0 |-> 32, n |-> 63]}}

InputReports ==
    StreamReports
    \cup {<<MDS_REPORT_ID_STREAM_DATA>>, <<7>>, <<7, 0>> \o Payload(10)}

\* Arguments an application passes to mds_update_last_sequence (any uint8_t).
SequenceArgs == {0, 30, 255}

\* What a hid read may return: an error, nothing in time, or a report.
HidReads ==
    {[result |-> -1, buffer |-> <<>>], [result |-> 0, buffer |-> <<>>]}
    \cup {[result |-> Len(b), buffer |-> b] : b \in InputReports}

(***************************************************************************)
(* The record of an API call                                               *)
(***************************************************************************)
NoHid == [result |-> 0, buffer |-> <<>>]
NoConfig == [data_uri |-> "", authorization |-> ""]

Call(op, ret, pre) ==
    [op |-> op, ret |-> ret, pre |-> pre, hid |-> NoHid, config |-> NoConfig,
     packet |-> NoPacket, reads |-> 0, read_ret |-> 0, checks |-> <<>>,
     sink |-> <<>>, writes |-> <<>>]

FreedSession == mds_session_create(NULL)
NoCall == Call("none", 0, FreedSession)

Bump(n) == IF n < MaxCalls THEN n + 1 ELSE n

(***************************************************************************)
(* Host actions                                                            *)
(***************************************************************************)
HostInit ==
    /\ alive = TRUE
    /\ session \in {mds_session_create(d) : d \in Devices}
    /\ filter = NoFilter
    /\ nCalls = 0
    /\ lastCall = NoCall

DevInit ==
    /\ mds = [hid_ready |-> FALSE, streaming_enabled |-> FALSE, chunk_number |-> 0]
    /\ wire = <<>>
    /\ lastSetReport = NoSetReport

\* The handle as memfault_hid_open leaves it: blocking, nothing read yet.
\* The most recent hid_device_submit_report call of mds_send_chunk: the report
\* and the chunk it was built from, the value returned, whether the
\* packetizer read was aborted, and mds_state at the moment of the call.
NoSubmit ==
    [report |-> <<>>, chunk |-> <<>>, ret |-> 0, abort |-> FALSE,
     streaming_enabled |-> FALSE, hid_ready |-> FALSE]

\* mds_uploader_create: calloc leaves the statistics zero.
NoStats == [chunks_uploaded |-> 0, bytes_uploaded |-> 0, upload_failures |-> 0,
            last_http_status |-> 0]

UploaderInit == uploader = [stats |-> NoStats, calls |-> 0]

\* main() before its loop: nothing built, nothing submitted.
MainInit ==
    mainThread = [pc |-> "loop", chunk |-> <<>>, report |-> <<>>, ret |-> 0,
                  submitted |-> <<>>, lastSubmit |-> NoSubmit]

HidInit ==
    hidapi = [nonblocking |-> FALSE, pending |-> <<>>, pc |-> "idle", fn |-> "none",
              timeout_ms |-> 0, waited |-> 0]

SessionCreate ==
    /\ ~alive
    /\ \E d \in Devices : session' = mds_session_create(d)
    /\ alive' = TRUE
    /\ nCalls' = 0
    /\ lastCall' = NoCall
    /\ UNCHANGED <<filter, devVars, hidapi, mainThread, uploader>>

SessionDestroy ==
    /\ alive
    /\ \E h \in HidWriteResults(2) :
         LET r == mds_session_destroy(session, filter, h)
         IN  /\ lastCall' = [Call("destroy", 0, session) EXCEPT !.writes = r.writes]
             /\ alive' = ~r.freed
             /\ session' = IF r.freed THEN FreedSession ELSE r.session
    /\ nCalls' = Bump(nCalls)
    /\ UNCHANGED <<filter, devVars, hidapi, mainThread, uploader>>

SetReportFilter ==
    /\ \E f \in Filters : filter' = f
    /\ UNCHANGED <<alive, session, nCalls, lastCall, devVars, hidapi, mainThread, uploader>>

StreamEnable ==
    /\ alive
    /\ \E h \in HidWriteResults(2) :
         LET r == mds_stream_enable(session, filter, h)
         IN  /\ session' = r.session
             /\ lastCall' = [Call("enable", r.ret, session) EXCEPT !.writes = r.writes]
    /\ nCalls' = Bump(nCalls)
    /\ UNCHANGED <<alive, filter, devVars, hidapi, mainThread, uploader>>

StreamDisable ==
    /\ alive
    /\ \E h \in HidWriteResults(2) :
         LET r == mds_stream_disable(session, filter, h)
         IN  /\ session' = r.session
             /\ lastCall' = [Call("disable", r.ret, session) EXCEPT !.writes = r.writes]
    /\ nCalls' = Bump(nCalls)
    /\ UNCHANGED <<alive, filter, devVars, hidapi, mainThread, uploader>>

StreamReadPacket ==
    /\ alive
    /\ \E t \in Timeouts, h \in HidReads :
         LET r == mds_stream_read_packet(session, filter, t, h)
         IN  /\ session' = r.session
             /\ lastCall' = [Call("read_packet", r.ret, session) EXCEPT
                                !.hid = IF r.reads > 0 THEN h ELSE NoHid,
                                !.packet = r.packet,
                                !.reads = r.reads,
                                !.read_ret = r.ret]
    /\ nCalls' = Bump(nCalls)
    /\ UNCHANGED <<alive, filter, devVars, hidapi, mainThread, uploader>>

SetUploadCallback ==
    /\ alive
    /\ \E k \in Sinks :
         LET r == mds_set_upload_callback(session, k.callback, k.user_data)
         IN  /\ session' = r.session
             /\ lastCall' = Call("set_upload_callback", r.ret, session)
                             @@ [callback |-> k.callback, user_data |-> k.user_data]
    /\ nCalls' = Bump(nCalls)
    /\ UNCHANGED <<alive, filter, devVars, hidapi, mainThread, uploader>>

StreamProcess ==
    /\ alive
    /\ \E c \in Configs, t \in Timeouts, h \in HidReads,
          k \in IF session.upload_callback = NULL THEN {0} ELSE SinkResults :
         LET r == mds_stream_process(session, filter, c, t, h, k)
         IN  /\ session' = r.session
             /\ lastCall' = [Call("process", r.ret, session) EXCEPT
                                !.hid = IF r.reads > 0 THEN h ELSE NoHid,
                                !.config = c,
                                !.packet = r.packet,
                                !.reads = r.reads,
                                !.read_ret = r.read_ret,
                                !.checks = r.checks,
                                !.sink = r.sink]
    /\ nCalls' = Bump(nCalls)
    /\ UNCHANGED <<alive, filter, devVars, hidapi, mainThread, uploader>>

UpdateLastSequence ==
    /\ alive
    /\ \E b \in SequenceArgs :
         /\ session' = mds_update_last_sequence(session, b)
         /\ lastCall' = Call("update_last_sequence", 0, session)
    /\ nCalls' = Bump(nCalls)
    /\ UNCHANGED <<alive, filter, devVars, hidapi, mainThread, uploader>>

(***************************************************************************)
(* Spec: session lifecycle and stream control over the report channel.     *)
(***************************************************************************)
Init == HostInit /\ DevInit /\ HidInit /\ MainInit /\ UploaderInit

Next ==
    \/ SessionCreate
    \/ SessionDestroy
    \/ SetReportFilter
    \/ StreamEnable
    \/ StreamDisable

Spec == Init /\ [][Next]_vars

(***************************************************************************)
(* SpecLink: the host's stream control connected to the device firmware.   *)
(* hid_write sends an Output report and hid_send_feature_report a Feature  *)
(* report; the device's USB stack hands each to mds_set_report with the    *)
(* report ID as the first byte.  A transfer hidapi reports as failed may   *)
(* or may not have reached the device.                                     *)
(***************************************************************************)
Request(from, ok, type, buffer) ==
    [from |-> from, ok |-> ok, type |-> type, id |-> buffer[1],
     len |-> Len(buffer), buf |-> buffer]

\* The requests channel calls put on the wire: ws are the calls' results.
Sent(from, type, ws, reached) ==
    IF ws # <<>> /\ ws[1].io /\ (ws[1].ret >= 0 \/ reached)
    THEN <<Request(from, ws[1].ret >= 0, type, ws[1].buffer)>>
    ELSE <<>>

\* Feature reports an application sends with memfault_hid_set_feature_report.
FeatureReports ==
    {[id |-> MDS_REPORT_ID_STREAM_CONTROL, data |-> <<MDS_STREAM_MODE_ENABLED>>],
     [id |-> MDS_REPORT_ID_STREAM_CONTROL, data |-> <<MDS_STREAM_MODE_DISABLED>>],
     [id |-> MDS_REPORT_ID_STREAM_CONTROL, data |-> <<2>>],
     [id |-> MDS_REPORT_ID_STREAM_CONTROL, data |-> <<>>],
     [id |-> 7, data |-> <<1>>]}

LinkStreamEnable ==
    /\ alive
    /\ Len(wire) < MaxWire
    /\ \E h \in HidWriteResults(2), reached \in BOOLEAN :
         LET r == mds_stream_enable(session, filter, h)
         IN  /\ session' = r.session
             /\ lastCall' = [Call("enable", r.ret, session) EXCEPT !.writes = r.writes]
             /\ wire' = wire \o Sent("mds_stream_enable", HID_REPORT_TYPE_OUTPUT,
                                     r.writes, reached)
    /\ nCalls' = Bump(nCalls)
    /\ UNCHANGED <<alive, filter, mds, lastSetReport, hidapi, mainThread, uploader>>

LinkStreamDisable ==
    /\ alive
    /\ Len(wire) < MaxWire
    /\ \E h \in HidWriteResults(2), reached \in BOOLEAN :
         LET r == mds_stream_disable(session, filter, h)
         IN  /\ session' = r.session
             /\ lastCall' = [Call("disable", r.ret, session) EXCEPT !.writes = r.writes]
             /\ wire' = wire \o Sent("mds_stream_disable", HID_REPORT_TYPE_OUTPUT,
                                     r.writes, reached)
    /\ nCalls' = Bump(nCalls)
    /\ UNCHANGED <<alive, filter, mds, lastSetReport, hidapi, mainThread, uploader>>

LinkSetFeature ==
    /\ Len(wire) < MaxWire
    /\ \E fr \in FeatureReports, reached \in BOOLEAN :
         \E h \in {-1, Len(fr.data) + 1} :
            LET r == memfault_hid_set_feature_report("hid0", filter, fr.id, fr.data,
                                                     Len(fr.data), h)
            IN  wire' = wire \o Sent("memfault_hid_set_feature_report",
                                     HID_REPORT_TYPE_FEATURE, <<r>>, reached)
    /\ UNCHANGED <<alive, session, filter, nCalls, lastCall, mds, lastSetReport, hidapi, mainThread, uploader>>

DevSetReport ==
    /\ wire # <<>>
    /\ LET q == Head(wire)
           r == mds_set_report(mds, q.type, q.id, q.len, q.buf)
       IN  /\ mds' = r.mds
           /\ lastSetReport' = [from |-> q.from, ok |-> q.ok, type |-> q.type,
                                id |-> q.id, ret |-> r.ret]
    /\ wire' = Tail(wire)
    /\ UNCHANGED <<alive, session, filter, nCalls, lastCall, hidapi, mainThread, uploader>>

DevIfaceReady ==
    /\ \E ready \in BOOLEAN : mds' = mds_iface_ready(mds, ready)
    /\ UNCHANGED <<alive, session, filter, nCalls, lastCall, wire, lastSetReport, hidapi, mainThread, uploader>>

InitLink ==
    /\ alive = TRUE
    /\ session = mds_session_create("hid0")
    /\ filter = NoFilter
    /\ nCalls = 0
    /\ lastCall = NoCall
    /\ DevInit
    /\ HidInit
    /\ MainInit
    /\ UploaderInit

NextLink ==
    \/ LinkStreamEnable
    \/ LinkStreamDisable
    \/ LinkSetFeature
    \/ DevSetReport
    \/ DevIfaceReady

SpecLink == InitLink /\ [][NextLink]_vars

(***************************************************************************)
(* SpecStream: stream data reception and chunk upload on a session, in     *)
(* either streaming state a session can be in.                             *)
(***************************************************************************)
InitStream ==
    \/ Init
    \/ /\ alive = TRUE
       /\ LET s0 == mds_session_create("hid0")
              r == mds_stream_enable(s0, NoFilter, 2)
          IN  /\ session = r.session
              /\ lastCall = [Call("enable", r.ret, s0) EXCEPT !.writes = r.writes]
       /\ filter = NoFilter
       /\ nCalls = 1
       /\ DevInit
       /\ HidInit
       /\ MainInit
       /\ UploaderInit

NextStream ==
    \/ SetReportFilter
    \/ StreamReadPacket
    \/ SetUploadCallback
    \/ StreamProcess
    \/ UpdateLastSequence

SpecStream == InitStream /\ [][NextStream]_vars

(***************************************************************************)
(* Stream control (checked under Spec)                                     *)
(***************************************************************************)
\* C1: mds_stream_enable makes one stream-control write; when that write
\* succeeds the session is Enabled and the call returns 0; when it fails the
\* call returns the channel's error and the session is as it was before, so
\* a Disabled session remains Disabled.
C1_EnableTransition ==
    lastCall.op = "enable" =>
        /\ Len(lastCall.writes) = 1
        /\ LET w == lastCall.writes[1]
           IN  /\ w.ret >= 0 =>
                    /\ lastCall.ret = 0
                    /\ session.streaming_enabled
               /\ w.ret < 0 =>
                    /\ lastCall.ret = w.ret
                    /\ session = lastCall.pre
                    /\ ~lastCall.pre.streaming_enabled => ~session.streaming_enabled

\* An enable on a Disabled session whose channel write failed in hidapi.
C1_Witness ==
    /\ lastCall.op = "enable"
    /\ ~lastCall.pre.streaming_enabled
    /\ lastCall.writes[1].io
    /\ lastCall.writes[1].ret = MEMFAULT_HID_ERROR_IO
    /\ lastCall.ret = MEMFAULT_HID_ERROR_IO
    /\ ~session.streaming_enabled

\* C2: mds_stream_disable makes one stream-control write; when that write
\* succeeds the session is Disabled and the call returns 0; when it fails the
\* call returns the channel's error and the session is not changed.
C2_DisableTransition ==
    lastCall.op = "disable" =>
        /\ Len(lastCall.writes) = 1
        /\ LET w == lastCall.writes[1]
           IN  /\ w.ret >= 0 =>
                    /\ lastCall.ret = 0
                    /\ ~session.streaming_enabled
               /\ w.ret < 0 =>
                    /\ lastCall.ret = w.ret
                    /\ session = lastCall.pre

\* A disable on an Enabled session whose channel write failed: still Enabled.
C2_Witness ==
    /\ lastCall.op = "disable"
    /\ lastCall.pre.streaming_enabled
    /\ lastCall.writes[1].ret < 0
    /\ lastCall.ret = lastCall.writes[1].ret
    /\ session.streaming_enabled

\* C3: when the first call on a new session is an enable that returns 0 and
\* the next call is a disable that returns 0, the session is Disabled and the
\* two calls made exactly two channel writes, both on report ID 0x05, with
\* the one-byte payloads [0x01] and then [0x00].
StreamControlWrite(w, mode) ==
    /\ w.report_id = 5
    /\ w.data = <<mode>>
    /\ w.io
    /\ w.buffer = <<5, mode>>

C3_Step ==
    (/\ alive /\ alive'
     /\ nCalls = 1 /\ lastCall.op = "enable" /\ lastCall.ret = 0
     /\ nCalls' = 2 /\ lastCall'.op = "disable" /\ lastCall'.ret = 0)
    => /\ ~session'.streaming_enabled
       /\ Len(lastCall.writes) = 1 /\ StreamControlWrite(lastCall.writes[1], 1)
       /\ Len(lastCall'.writes) = 1 /\ StreamControlWrite(lastCall'.writes[1], 0)

C3_EnableThenDisable == [][C3_Step]_vars

\* The second call on a session was a disable that succeeded on a session the
\* first call, an enable, had left Enabled.
C3_Witness ==
    /\ alive
    /\ nCalls = 2
    /\ lastCall.op = "disable"
    /\ lastCall.ret = 0
    /\ lastCall.pre.streaming_enabled
    /\ StreamControlWrite(lastCall.writes[1], 0)
    /\ ~session.streaming_enabled

(***************************************************************************)
(* Host stream control against the device firmware (checked under SpecLink) *)
(***************************************************************************)
\* C4: once the device has handled the stream-control report of an
\* mds_stream_enable that returned success, the device firmware is
\* streaming-enabled (the state in which its main loop submits stream-data
\* reports).
C4_EnableReachesDevice ==
    (/\ lastSetReport.from = "mds_stream_enable"
     /\ lastSetReport.ok)
    => mds.streaming_enabled

(***************************************************************************)
(* Stream data reception and upload (checked under SpecStream)             *)
(***************************************************************************)
\* The call read a packet: mds_stream_read_packet filled the caller's packet.
ReadPacketOk(c) ==
    /\ c.op \in {"read_packet", "process"}
    /\ c.packet # NoPacket

\* The payload a stream-data report carries after its report ID and its
\* sequence byte, as hid_read stored it.
ReportPayload(hid) == [i \in 1..(Len(hid.buffer) - 2) |-> hid.buffer[i + 2]]

\* C5: after a successful read, mds_stream_process invokes the upload callback
\* if and only if one is registered, exactly once, with the configuration's
\* data URI and authorization, the payload bytes and length of the report that
\* was read, and the registered context.
C5_SinkDelivery ==
    (lastCall.op = "process" /\ ReadPacketOk(lastCall)) =>
        IF lastCall.pre.upload_callback = NULL
        THEN lastCall.sink = <<>>
        ELSE /\ Len(lastCall.sink) = 1
             /\ LET k == lastCall.sink[1]
                IN  /\ k.callback = lastCall.pre.upload_callback
                    /\ k.uri = lastCall.config.data_uri
                    /\ k.auth_header = lastCall.config.authorization
                    /\ k.chunk_data = ReportPayload(lastCall.hid)
                    /\ k.chunk_len = Len(lastCall.hid.buffer) - 2
                    /\ k.chunk_data = lastCall.packet.data
                    /\ k.chunk_len = lastCall.packet.data_len
                    /\ k.user_data = lastCall.pre.upload_user_data

\* A packet with sequence 0 and 10 data bytes was delivered to the sink.
C5_Witness ==
    /\ lastCall.op = "process"
    /\ lastCall.packet.sequence = 0
    /\ lastCall.packet.data_len = 10
    /\ Len(lastCall.sink) = 1
    /\ lastCall.sink[1].uri = "https://x/chunks/DEV123"
    /\ lastCall.sink[1].auth_header = "Memfault-Project-Key: abc"
    /\ lastCall.sink[1].chunk_len = 10
    /\ Len(lastCall.sink[1].chunk_data) = 10

\* C6: mds_stream_process returns an error of mds_stream_read_packet
\* unchanged without invoking the sink, returns an error of the sink
\* unchanged, and makes at most one channel read and at most one sink
\* invocation per call.
C6_ProcessErrors ==
    lastCall.op = "process" =>
        /\ lastCall.reads <= 1
        /\ Len(lastCall.sink) <= 1
        /\ lastCall.read_ret < 0 =>
             /\ lastCall.ret = lastCall.read_ret
             /\ lastCall.sink = <<>>
        /\ (lastCall.sink # <<>> /\ lastCall.sink[1].ret < 0) =>
             lastCall.ret = lastCall.sink[1].ret

\* A process call with a sink registered whose read timed out.
C6_Witness ==
    /\ lastCall.op = "process"
    /\ lastCall.pre.upload_callback # NULL
    /\ lastCall.reads = 1
    /\ lastCall.read_ret = MEMFAULT_HID_ERROR_TIMEOUT
    /\ lastCall.ret = MEMFAULT_HID_ERROR_TIMEOUT
    /\ lastCall.sink = <<>>

\* The packet is not the successor of the last one the session accepted.
Anomalous(c) == c.packet.sequence # (c.pre.last_sequence + 1) % 32

\* C7: for every packet read successfully, whatever its sequence number,
\* mds_stream_process invokes the registered sink and returns the sink's
\* result; with no sink registered it returns 0.
C7_AnomalyDoesNotBlock ==
    (lastCall.op = "process" /\ ReadPacketOk(lastCall)) =>
        IF lastCall.pre.upload_callback # NULL
        THEN /\ Len(lastCall.sink) = 1
             /\ lastCall.ret = lastCall.sink[1].ret
        ELSE lastCall.ret = 0

\* A duplicate packet was uploaded and the call returned the sink's success.
C7_Witness ==
    /\ lastCall.op = "process"
    /\ ReadPacketOk(lastCall)
    /\ Anomalous(lastCall)
    /\ lastCall.packet.sequence = lastCall.pre.last_sequence
    /\ Len(lastCall.sink) = 1
    /\ lastCall.sink[1].ret = 0
    /\ lastCall.ret = 0

\* C8: the sequence check mds_stream_process makes for a received packet
\* compares the packet's sequence with the sequence of the previously
\* accepted packet, and classifies it valid exactly when it is that sequence
\* plus one modulo 32.
C8_CheckAgainstPrevious ==
    (lastCall.op = "process" /\ ReadPacketOk(lastCall)) =>
        /\ Len(lastCall.checks) = 1
        /\ lastCall.checks[1].prev_seq = lastCall.pre.last_sequence
        /\ lastCall.checks[1].new_seq = lastCall.packet.sequence
        /\ lastCall.checks[1].valid <=> ~Anomalous(lastCall)

\* C9: on a newly created session the first packet, with sequence 0, passes
\* the sequence validation of mds_stream_process.
C9_FirstPacketValid ==
    (/\ lastCall.op = "process"
     /\ ReadPacketOk(lastCall)
     /\ nCalls = 1
     /\ lastCall.pre = mds_session_create(lastCall.pre.device)
     /\ lastCall.packet.sequence = 0)
    => /\ Len(lastCall.checks) = 1
       /\ lastCall.checks[1].valid

\* C10: every successfully read packet makes its sequence the session's
\* last_sequence, whether or not it was the expected one; so when a packet
\* with sequence s was anomalous and the next packet read has sequence
\* (s + 1) mod 32, mds_validate_sequence of the session's last_sequence
\* before that read and the new sequence holds.
C10_Step ==
    /\ ReadPacketOk(lastCall') =>
         /\ session'.last_sequence = lastCall'.packet.sequence
         /\ mds_get_last_sequence(session') = BitAnd(lastCall'.hid.buffer[2], 31)
    /\ (/\ ReadPacketOk(lastCall) /\ Anomalous(lastCall)
        /\ ReadPacketOk(lastCall') /\ lastCall' # lastCall
        /\ lastCall'.packet.sequence = (lastCall.packet.sequence + 1) % 32)
       => /\ lastCall'.pre.last_sequence = lastCall.packet.sequence
          /\ mds_validate_sequence(mds_get_last_sequence(session),
                                   lastCall'.packet.sequence)

C10_BaselineAdvances == [][C10_Step]_vars

\* The first packet of a session had sequence 1 (a gap after the sentinel 31)
\* and the second packet, with sequence 2, found last_sequence = 1.
C10_Witness ==
    /\ nCalls = 2
    /\ ReadPacketOk(lastCall)
    /\ lastCall.pre.last_sequence = 1
    /\ lastCall.packet.sequence = 2
    /\ session.last_sequence = 2
    /\ mds_validate_sequence(lastCall.pre.last_sequence, lastCall.packet.sequence)

(***************************************************************************)
(* Device configuration (mds_protocol.c, memfault_hid.c)                   *)
(* A C string is the sequence of its bytes before the terminating NUL.     *)
(***************************************************************************)
\* hid: [result, buffer], what hid_get_feature_report returns and the bytes
\* it stored in buffer[MEMFAULT_HID_MAX_REPORT_SIZE + 1], report ID first;
\* a result >= 0 is in 1..MEMFAULT_HID_MAX_REPORT_SIZE + 1 here.
memfault_hid_get_feature_report(device, f, report_id, length, hid) ==
    IF device = NULL
    THEN [report_id |-> report_id, ret |-> MEMFAULT_HID_ERROR_INVALID_PARAM,
          io |-> FALSE, data |-> <<>>]
    ELSE IF is_report_filtered(f, report_id)
    THEN [report_id |-> report_id, ret |-> MEMFAULT_HID_ERROR_INVALID_REPORT_TYPE,
          io |-> FALSE, data |-> <<>>]
    ELSE IF hid.result < 0
    THEN [report_id |-> report_id, ret |-> MEMFAULT_HID_ERROR_IO,
          io |-> TRUE, data |-> <<>>]
    ELSE [report_id |-> report_id, ret |-> hid.result - 1,
          io |-> TRUE, data |-> SubSeq(hid.buffer, 2, hid.result)]

\* Byte i (from 0) of a buffer whose first bytes are data and the rest zero.
ByteAt(data, i) == IF i + 1 <= Len(data) THEN data[i + 1] ELSE 0

\* features: the caller's uint32_t before the call; the result's features is
\* its value after the call.
\* A uint32_t as its two 16-bit halves: the value is lo + 65536 * hi.
uint32_t(hi, lo) == [hi |-> hi, lo |-> lo]

\* Faulty variant: the four bytes are read most significant first.
mds_parse_supported_features_BigEndian(buffer, buffer_len, features) ==
    IF buffer_len < 4
    THEN [ret |-> -EINVAL, features |-> features]
    ELSE [ret |-> 0,
          features |-> uint32_t(ByteAt(buffer, 1) + 256 * ByteAt(buffer, 0),
                                ByteAt(buffer, 3) + 256 * ByteAt(buffer, 2))]

mds_parse_supported_features(buffer, buffer_len, features) ==
    IF buffer_len < 4
    THEN [ret |-> -EINVAL, features |-> features]
    ELSE [ret |-> 0,
          features |-> uint32_t(ByteAt(buffer, 2) + 256 * ByteAt(buffer, 3),
                                ByteAt(buffer, 0) + 256 * ByteAt(buffer, 1))]

\* The string a char array holds: its bytes before the first NUL.
CString(bytes) ==
    LET nul == {i \in 1..Len(bytes) : bytes[i] = 0}
    IN  IF nul = {} THEN bytes
        ELSE SubSeq(bytes, 1, (CHOOSE i \in nul : \A j \in nul : i <= j) - 1)

\* The string parsers yield dest, the bytes written from the start of the
\* destination (terminator included), and str, the string the destination
\* holds afterwards.
\* Faulty variant: a truncated copy stops one byte early.
mds_parse_device_identifier_ShortCopy(buffer, buffer_len, device_id, max_len) ==
    IF max_len = 0
    THEN [ret |-> -EINVAL, dest |-> <<>>, str |-> device_id]
    ELSE LET copy_len == IF buffer_len < max_len THEN buffer_len
                         ELSE IF max_len > 1 THEN max_len - 2 ELSE 0
             dest == SubSeq(buffer, 1, copy_len) \o <<0>>
         IN  [ret |-> 0, dest |-> dest, str |-> CString(dest)]

mds_parse_device_identifier(buffer, buffer_len, device_id, max_len) ==
    IF max_len = 0
    THEN [ret |-> -EINVAL, dest |-> <<>>, str |-> device_id]
    ELSE LET copy_len == IF buffer_len < max_len THEN buffer_len ELSE max_len - 1
             dest == SubSeq(buffer, 1, copy_len) \o <<0>>
         IN  [ret |-> 0, dest |-> dest, str |-> CString(dest)]

\* Faulty variant: the copy is bounded by the capacity, not by capacity - 1.
mds_parse_data_uri_NoRoom(buffer, buffer_len, uri, max_len) ==
    IF max_len = 0
    THEN [ret |-> -EINVAL, dest |-> <<>>, str |-> uri]
    ELSE LET copy_len == IF buffer_len < max_len THEN buffer_len ELSE max_len
             dest == SubSeq(buffer, 1, copy_len) \o <<0>>
         IN  [ret |-> 0, dest |-> dest, str |-> CString(dest)]

mds_parse_data_uri(buffer, buffer_len, uri, max_len) ==
    IF max_len = 0
    THEN [ret |-> -EINVAL, dest |-> <<>>, str |-> uri]
    ELSE LET copy_len == IF buffer_len < max_len THEN buffer_len ELSE max_len - 1
             dest == SubSeq(buffer, 1, copy_len) \o <<0>>
         IN  [ret |-> 0, dest |-> dest, str |-> CString(dest)]

mds_parse_authorization(buffer, buffer_len, auth, max_len) ==
    IF max_len = 0
    THEN [ret |-> -EINVAL, dest |-> <<>>, str |-> auth]
    ELSE LET copy_len == IF buffer_len < max_len THEN buffer_len ELSE max_len - 1
             dest == SubSeq(buffer, 1, copy_len) \o <<0>>
         IN  [ret |-> 0, dest |-> dest, str |-> CString(dest)]

\* Each getter yields its return value, the caller's output afterwards and
\* its memfault_hid_get_feature_report call (read).
mds_get_supported_features(s, f, features, hid) ==
    LET r == memfault_hid_get_feature_report(s.device, f,
                 MDS_REPORT_ID_SUPPORTED_FEATURES, 4, hid)
    IN  IF r.ret < 0
        THEN [ret |-> r.ret, out |-> features, read |-> r]
        ELSE LET p == mds_parse_supported_features(r.data, r.ret, features)
             IN  [ret |-> p.ret, out |-> p.features, read |-> r]

mds_get_device_identifier(s, f, device_id, max_len, hid) ==
    LET r == memfault_hid_get_feature_report(s.device, f,
                 MDS_REPORT_ID_DEVICE_IDENTIFIER, MDS_MAX_DEVICE_ID_LEN, hid)
    IN  IF r.ret < 0
        THEN [ret |-> r.ret, out |-> device_id, read |-> r]
        ELSE LET p == mds_parse_device_identifier(r.data, r.ret, device_id, max_len)
             IN  [ret |-> p.ret, out |-> p.str, read |-> r]

mds_get_data_uri(s, f, uri, max_len, hid) ==
    LET r == memfault_hid_get_feature_report(s.device, f,
                 MDS_REPORT_ID_DATA_URI, MDS_MAX_URI_LEN, hid)
    IN  IF r.ret < 0
        THEN [ret |-> r.ret, out |-> uri, read |-> r]
        ELSE LET p == mds_parse_data_uri(r.data, r.ret, uri, max_len)
             IN  [ret |-> p.ret, out |-> p.str, read |-> r]

mds_get_authorization(s, f, auth, max_len, hid) ==
    LET r == memfault_hid_get_feature_report(s.device, f,
                 MDS_REPORT_ID_AUTHORIZATION, MDS_MAX_AUTH_LEN, hid)
    IN  IF r.ret < 0
        THEN [ret |-> r.ret, out |-> auth, read |-> r]
        ELSE LET p == mds_parse_authorization(r.data, r.ret, auth, max_len)
             IN  [ret |-> p.ret, out |-> p.str, read |-> r]

\* Faulty variant: a failed identifier read does not stop the operation.
mds_read_device_config_Continue(s, f, config, hids) ==
    LET g1 == mds_get_supported_features(s, f, config.supported_features, hids[1])
        c1 == [config EXCEPT !.supported_features = g1.out]
        g2 == mds_get_device_identifier(s, f, config.device_identifier,
                                        MDS_MAX_DEVICE_ID_LEN, hids[2])
        c2 == [c1 EXCEPT !.device_identifier = g2.out]
        g3 == mds_get_data_uri(s, f, config.data_uri, MDS_MAX_URI_LEN, hids[3])
        c3 == [c2 EXCEPT !.data_uri = g3.out]
    IN  IF g1.ret < 0
        THEN [ret |-> g1.ret, config |-> c1, reads |-> <<g1.read>>]
        ELSE IF g3.ret < 0
        THEN [ret |-> g3.ret, config |-> c3, reads |-> <<g1.read, g2.read, g3.read>>]
        ELSE [ret |-> g2.ret, config |-> c3, reads |-> <<g1.read, g2.read, g3.read>>]

\* config: the caller's mds_device_config_t before the call; hids: what the
\* four hid_get_feature_report calls would return, in order.
mds_read_device_config(s, f, config, hids) ==
    LET g1 == mds_get_supported_features(s, f, config.supported_features, hids[1])
        c1 == [config EXCEPT !.supported_features = g1.out]
        g2 == mds_get_device_identifier(s, f, config.device_identifier,
                                        MDS_MAX_DEVICE_ID_LEN, hids[2])
        c2 == [c1 EXCEPT !.device_identifier = g2.out]
        g3 == mds_get_data_uri(s, f, config.data_uri, MDS_MAX_URI_LEN, hids[3])
        c3 == [c2 EXCEPT !.data_uri = g3.out]
        g4 == mds_get_authorization(s, f, config.authorization, MDS_MAX_AUTH_LEN,
                                    hids[4])
        c4 == [c3 EXCEPT !.authorization = g4.out]
    IN  IF g1.ret < 0
        THEN [ret |-> g1.ret, config |-> c1, reads |-> <<g1.read>>]
        ELSE IF g2.ret < 0
        THEN [ret |-> g2.ret, config |-> c2, reads |-> <<g1.read, g2.read>>]
        ELSE IF g3.ret < 0
        THEN [ret |-> g3.ret, config |-> c3, reads |-> <<g1.read, g2.read, g3.read>>]
        ELSE IF g4.ret < 0
        THEN [ret |-> g4.ret, config |-> c4,
              reads |-> <<g1.read, g2.read, g3.read, g4.read>>]
        ELSE [ret |-> 0, config |-> c4,
              reads |-> <<g1.read, g2.read, g3.read, g4.read>>]

(***************************************************************************)
(* SpecApi: the functions of the buffer-based API called with arguments an *)
(* application may pass, NULL pointers included.  lastCall holds the call: *)
(* its arguments and what it returned.                                     *)
(***************************************************************************)
\* uint8_t sequence arguments: every 5-bit value, and bytes beyond 5 bits.
SequenceBytes == 0..31 \cup {32, 255}

ValidateSequence ==
    /\ \E p \in SequenceBytes, n \in SequenceBytes :
         lastCall' = [op |-> "mds_validate_sequence", prev_seq |-> p, new_seq |-> n,
                      ret |-> mds_validate_sequence(p, n)]
    /\ UNCHANGED <<alive, session, filter, nCalls, devVars, hidapi, mainThread, uploader>>

\* Pointer arguments an application passes: NULL, or the address of an object.
Pointers == {NULL, "object"}

\* mds_stream_read_packet with its pointer arguments: session and packet are
\* the pointers passed, s the session a non-NULL session points to.
mds_stream_read_packet_checked(session_ptr, packet_ptr, s, f, timeout_ms, hid) ==
    IF session_ptr = NULL \/ packet_ptr = NULL
    THEN [ret |-> -EINVAL, session |-> s, packet |-> NoPacket, reads |-> 0]
    ELSE mds_stream_read_packet(s, f, timeout_ms, hid)

\* mds_parse_supported_features with its pointer arguments.
mds_parse_supported_features_checked(buffer_ptr, out_ptr, buffer, buffer_len, features) ==
    IF buffer_ptr = NULL \/ out_ptr = NULL
    THEN [ret |-> -EINVAL, features |-> features]
    ELSE mds_parse_supported_features(buffer, buffer_len, features)

\* mds_parse_stream_packet with its pointer arguments.
mds_parse_stream_packet_checked(buffer_ptr, packet_ptr, buffer, buffer_len) ==
    IF buffer_ptr = NULL \/ packet_ptr = NULL
    THEN [ret |-> -EINVAL, packet |-> NoPacket]
    ELSE mds_parse_stream_packet(buffer, buffer_len)

\* Buffers handed to the decoders.
FeatureBuffers == {<<>>, <<31, 0, 0>>, <<31, 0, 0, 0>>, <<1, 2, 3, 4, 5>>}

PacketBuffers == {<<>>, <<0>>, <<33, 7, 8>>}

ReadPacketArgs ==
    /\ alive
    /\ \E sp \in Pointers, pp \in Pointers, t \in Timeouts, h \in HidReads :
         LET r == mds_stream_read_packet_checked(sp, pp, session, filter, t, h)
         IN  /\ session' = r.session
             /\ lastCall' = [op |-> "read_packet", session_ptr |-> sp,
                             packet_ptr |-> pp, pre |-> session,
                             hid |-> IF r.reads > 0 THEN h ELSE NoHid,
                             ret |-> r.ret, packet |-> r.packet, reads |-> r.reads]
    /\ nCalls' = Bump(nCalls)
    /\ UNCHANGED <<alive, filter, devVars, hidapi, mainThread, uploader>>

ParseSupportedFeatures ==
    /\ \E bp \in Pointers, fp \in Pointers, b \in FeatureBuffers :
         LET r == mds_parse_supported_features_checked(bp, fp, b, Len(b), uint32_t(0, 0))
         IN  lastCall' = [op |-> "mds_parse_supported_features", buffer_ptr |-> bp,
                          out_ptr |-> fp, buffer |-> b, buffer_len |-> Len(b),
                          ret |-> r.ret, features |-> r.features]
    /\ UNCHANGED <<alive, session, filter, nCalls, devVars, hidapi, mainThread, uploader>>

ParseStreamPacket ==
    /\ \E bp \in Pointers, pp \in Pointers, b \in PacketBuffers :
         LET r == mds_parse_stream_packet_checked(bp, pp, b, Len(b))
         IN  lastCall' = [op |-> "mds_parse_stream_packet", buffer_ptr |-> bp,
                          out_ptr |-> pp, buffer |-> b, buffer_len |-> Len(b),
                          ret |-> r.ret, packet |-> r.packet]
    /\ UNCHANGED <<alive, session, filter, nCalls, devVars, hidapi, mainThread, uploader>>

NextApi ==
    \/ ValidateSequence
    \/ ParseSupportedFeatures
    \/ ParseStreamPacket

SpecApi == Init /\ [][NextApi]_vars

(***************************************************************************)
(* SpecArgs: the session's packet read called with the pointer arguments   *)
(* an application may pass.                                                *)
(***************************************************************************)
NextArgs ==
    \/ ReadPacketArgs

SpecArgs == Init /\ [][NextArgs]_vars

(***************************************************************************)
(* Sequence validation (checked under SpecApi)                             *)
(***************************************************************************)
\* C11: for all prev, new in 0..31, mds_validate_sequence(prev, new) holds if
\* and only if new = (prev + 1) mod 32; validate(31, 0) is true, the duplicate
\* validate(5, 5) is false and the gap validate(5, 7) is false.
C11_ValidateSequence ==
    (/\ lastCall.op = "mds_validate_sequence"
     /\ lastCall.prev_seq \in 0..31
     /\ lastCall.new_seq \in 0..31)
    => /\ lastCall.ret <=> (lastCall.new_seq = (lastCall.prev_seq + 1) % 32)
       /\ (lastCall.prev_seq = 31 /\ lastCall.new_seq = 0) => lastCall.ret
       /\ (lastCall.prev_seq = 5 /\ lastCall.new_seq = 5) => ~lastCall.ret
       /\ (lastCall.prev_seq = 5 /\ lastCall.new_seq = 7) => ~lastCall.ret

\* mds_validate_sequence(31, 0) was called and returned true.
C11_Witness ==
    /\ lastCall.op = "mds_validate_sequence"
    /\ lastCall.prev_seq = 31
    /\ lastCall.new_seq = 0
    /\ lastCall.ret = TRUE

(***************************************************************************)
(* SpecConfig: an application reads the device configuration.              *)
(***************************************************************************)
\* ASCII bytes of device strings.
Bytes(n, first) == [i \in 1..n |-> first + (i % 10)]

\* What hid_get_feature_report may return for report ID id: a failure, or a
\* report the device answers with (report ID first).
HidFeatureReads(id) ==
    {[result |-> -1, buffer |-> <<>>]}
    \cup {[result |-> Len(b), buffer |-> b] :
            b \in IF id = MDS_REPORT_ID_SUPPORTED_FEATURES
                  THEN {<<id, 31, 0, 0, 0>>, <<id, 31, 0, 0>>}
                  ELSE IF id = MDS_REPORT_ID_DEVICE_IDENTIFIER
                  THEN {<<id>> \o Bytes(6, 65), <<id>> \o Bytes(64, 65)}
                  ELSE IF id = MDS_REPORT_ID_DATA_URI
                  THEN {<<id>> \o Bytes(20, 97)}
                  ELSE {<<id>> \o Bytes(12, 48)}}

\* The caller's mds_device_config_t before the call: zeroed, or an earlier
\* configuration.
CallerConfigs ==
    {[supported_features |-> uint32_t(0, 0), device_identifier |-> <<>>, data_uri |-> <<>>,
      authorization |-> <<>>],
     [supported_features |-> uint32_t(0, 3), device_identifier |-> Bytes(4, 70),
      data_uri |-> Bytes(8, 100), authorization |-> Bytes(5, 50)]}

ReadDeviceConfig ==
    /\ alive
    /\ \E c \in CallerConfigs,
          h1 \in HidFeatureReads(MDS_REPORT_ID_SUPPORTED_FEATURES),
          h2 \in HidFeatureReads(MDS_REPORT_ID_DEVICE_IDENTIFIER),
          h3 \in HidFeatureReads(MDS_REPORT_ID_DATA_URI),
          h4 \in HidFeatureReads(MDS_REPORT_ID_AUTHORIZATION) :
         LET r == mds_read_device_config(session, filter, c, <<h1, h2, h3, h4>>)
         IN  lastCall' = [op |-> "read_device_config", ret |-> r.ret, pre |-> session,
                          pre_config |-> c, config |-> r.config,
                          hids |-> SubSeq(<<h1, h2, h3, h4>>, 1, Len(r.reads)),
                          reads |-> r.reads]
    /\ nCalls' = Bump(nCalls)
    /\ UNCHANGED <<alive, session, filter, devVars, hidapi, mainThread, uploader>>

NextConfig ==
    \/ SetReportFilter
    \/ ReadDeviceConfig

SpecConfig == Init /\ [][NextConfig]_vars

(***************************************************************************)
(* Device configuration (checked under SpecConfig)                         *)
(***************************************************************************)
\* The error step i of a configuration read ends with, 0 if it succeeds: the
\* channel's error, or -EINVAL when the features report is too short to decode.
StepError(c, i) ==
    IF c.reads[i].ret < 0 THEN c.reads[i].ret
    ELSE IF i = 1 /\ c.reads[i].ret < 4 THEN -EINVAL
    ELSE 0

\* C12: mds_read_device_config issues the feature-report reads in the order
\* 0x01, 0x02, 0x03, 0x04; every read before the last one issued succeeded,
\* the operation stops at the first read or decode failure with no later read
\* issued, and returns that failure's error; it returns 0 when all four
\* succeed.
C12_ConfigReadOrder ==
    lastCall.op = "read_device_config" =>
        LET n == Len(lastCall.reads)
        IN  /\ n \in 1..4
            /\ \A i \in 1..n : lastCall.reads[i].report_id = i
            /\ \A i \in 1..(n - 1) : StepError(lastCall, i) = 0
            /\ lastCall.ret = StepError(lastCall, n)
            /\ n < 4 => lastCall.ret < 0

\* The identifier read failed after the features read succeeded: two reads
\* were issued and the channel's I/O error was returned.
C12_Witness ==
    /\ lastCall.op = "read_device_config"
    /\ Len(lastCall.reads) = 2
    /\ lastCall.reads[1].ret = 4
    /\ lastCall.reads[2].io
    /\ lastCall.ret = MEMFAULT_HID_ERROR_IO

\* C13: whenever mds_read_device_config returns an error the caller's
\* configuration is as it was before the call.
C13_NoPartialConfig ==
    (lastCall.op = "read_device_config" /\ lastCall.ret < 0)
    => lastCall.config = lastCall.pre_config

(***************************************************************************)
(* Error values: C14 under SpecArgs, C15 under SpecStream, C20 under       *)
(* SpecApi.                                                                *)
(***************************************************************************)
\* What a function returns for invalid caller input (a NULL pointer).
InvalidArgument(op) ==
    IF op = "read_packet"
    THEN mds_stream_read_packet_checked(NULL, NULL, FreedSession, NoFilter, 0, NoHid).ret
    ELSE IF op = "mds_parse_supported_features"
    THEN mds_parse_supported_features_checked(NULL, NULL, <<>>, 0, uint32_t(0, 0)).ret
    ELSE mds_parse_stream_packet_checked(NULL, NULL, <<>>, 0).ret

\* C14: mds_stream_read_packet called with valid pointers fails when the
\* input report read carries a report ID other than 0x06, with an error
\* that differs from the one it returns for NULL caller input.
C14_ProtocolMismatchDistinct ==
    (/\ lastCall.op = "read_packet"
     /\ lastCall.session_ptr # NULL
     /\ lastCall.packet_ptr # NULL
     /\ lastCall.reads = 1
     /\ lastCall.hid.result > 0
     /\ lastCall.hid.buffer[1] # MDS_REPORT_ID_STREAM_DATA)
    => /\ lastCall.ret < 0
       /\ lastCall.ret # InvalidArgument("read_packet")

\* The values errno.h gives ETIMEDOUT on the platforms hidapi builds for
\* (macOS, Linux, newlib, Windows).
ETIMEDOUT_Values == {60, 110, 116, 138}

\* C15: when no input report arrives within the timeout,
\* mds_stream_read_packet and mds_stream_process return -ETIMEDOUT.
C15_TimeoutIsETIMEDOUT ==
    (/\ lastCall.op \in {"read_packet", "process"}
     /\ lastCall.reads = 1
     /\ lastCall.hid.result = 0)
    => \E e \in ETIMEDOUT_Values : lastCall.ret = -e

\* C20: the decoders fail on too-short input (mds_parse_supported_features
\* with fewer than 4 bytes, mds_parse_stream_packet with 0 bytes) with an
\* error that differs from the one they return for NULL caller input.
C20_MalformedDistinct ==
    (/\ lastCall.op \in {"mds_parse_supported_features", "mds_parse_stream_packet"}
     /\ lastCall.buffer_ptr # NULL
     /\ lastCall.out_ptr # NULL
     /\ lastCall.buffer_len < (IF lastCall.op = "mds_parse_supported_features"
                               THEN 4 ELSE 1))
    => /\ lastCall.ret < 0
       /\ lastCall.ret # InvalidArgument(lastCall.op)

(***************************************************************************)
(* Session teardown (checked under Spec)                                   *)
(***************************************************************************)
\* C17: mds_session_destroy on an enabled session makes exactly one
\* stream-control write, with payload 0x00, and frees the session whatever
\* that write returned; on a disabled session it makes no channel write and
\* frees the session.
C17_Teardown ==
    lastCall.op = "destroy" =>
        /\ ~alive
        /\ session = FreedSession
        /\ lastCall.ret = 0
        /\ IF lastCall.pre.streaming_enabled
           THEN /\ Len(lastCall.writes) = 1
                /\ lastCall.writes[1].report_id = MDS_REPORT_ID_STREAM_CONTROL
                /\ lastCall.writes[1].data = <<0>>
           ELSE lastCall.writes = <<>>

\* An enabled session was destroyed, its disable write failed in hid_write,
\* and the session is gone.
C17_Witness ==
    /\ lastCall.op = "destroy"
    /\ lastCall.pre.streaming_enabled
    /\ Len(lastCall.writes) = 1
    /\ lastCall.writes[1].io
    /\ lastCall.writes[1].ret = MEMFAULT_HID_ERROR_IO
    /\ ~alive

(***************************************************************************)
(* Upload sink and session creation (checked under SpecStream)             *)
(***************************************************************************)
\* C18: a session holds one sink: mds_set_upload_callback replaces the
\* callback together with its context by the pair passed and changes nothing
\* else; mds_stream_process invokes at most the sink registered when it is
\* called, with that sink's context; and after NULL was registered
\* mds_stream_process of a readable packet returns 0 and invokes no sink.
C18_SingleSink ==
    /\ lastCall.op = "set_upload_callback" =>
         /\ lastCall.ret = 0
         /\ session = [lastCall.pre EXCEPT !.upload_callback = lastCall.callback,
                                           !.upload_user_data = lastCall.user_data]
    /\ lastCall.op = "process" =>
         /\ Len(lastCall.sink) <= 1
         /\ \A i \in 1..Len(lastCall.sink) :
              /\ lastCall.sink[i].callback = lastCall.pre.upload_callback
              /\ lastCall.sink[i].user_data = lastCall.pre.upload_user_data
         /\ (lastCall.pre.upload_callback = NULL /\ lastCall.read_ret >= 0) =>
              /\ lastCall.sink = <<>>
              /\ lastCall.packet # NoPacket
              /\ lastCall.ret = 0

\* A registered sink was replaced by another sink with another context.
C18_Witness ==
    /\ lastCall.op = "set_upload_callback"
    /\ lastCall.pre.upload_callback = "mds_uploader_callback"
    /\ lastCall.pre.upload_user_data = "uploader1"
    /\ session.upload_callback = "app_callback"
    /\ session.upload_user_data = "ctx2"

\* C19: a newly created session has streaming disabled, last_sequence 31 and
\* no sink, also when its device is NULL; on a session without a device
\* mds_update_last_sequence stores the low five bits of its argument and
\* mds_get_last_sequence returns them.
C19_NewSession ==
    /\ nCalls = 0 =>
         /\ alive
         /\ ~session.streaming_enabled
         /\ session.last_sequence = MDS_SEQUENCE_MAX
         /\ session.upload_callback = NULL
         /\ session.upload_user_data = NULL
    /\ (lastCall.op = "update_last_sequence" /\ session.device = NULL) =>
         /\ mds_get_last_sequence(session) \in 0..31
         /\ mds_get_last_sequence(session) \in {b % 32 : b \in SequenceArgs}
         /\ session = [lastCall.pre EXCEPT !.last_sequence = mds_get_last_sequence(session)]

\* A session created without a device had its sequence set to 30 as the
\* first call on it.
C19_Witness ==
    /\ session.device = NULL
    /\ nCalls = 1
    /\ lastCall.op = "update_last_sequence"
    /\ lastCall.pre.last_sequence = MDS_SEQUENCE_MAX
    /\ mds_get_last_sequence(session) = 30

(***************************************************************************)
(* SpecRead: a packet read in time.  hidapi is the environment:            *)
(* hid_read_timeout(ms) returns a queued report at once, otherwise waits   *)
(* up to ms milliseconds (for ever when ms < 0) and returns 0 when none    *)
(* came; hid_read is hid_read_timeout with ms = 0 on a non-blocking handle *)
(* and ms = -1 on a blocking one.  A Tick is one millisecond of a wait.    *)
(***************************************************************************)
\* timeout_ms arguments: infinite, zero, and bounded waits.
ReadTimeouts == {-1, 0} \cup 1..MaxWait

\* Input reports the device submits.
ArrivingReports ==
    {<<MDS_REPORT_ID_STREAM_DATA, 0>> \o Payload(10),
     <<MDS_REPORT_ID_STREAM_DATA, 1>> \o Payload(0)}

\* The hidapi read in progress returns 0 ("no report") in this state.
HidReadExpired ==
    \/ hidapi.fn = "hid_read" /\ hidapi.nonblocking
    \/ hidapi.fn = "hid_read_timeout" /\ hidapi.timeout_ms >= 0
                                      /\ hidapi.waited >= hidapi.timeout_ms

SetNonblocking ==
    /\ hidapi.pc = "idle"
    /\ \E nonblock \in BOOLEAN, result \in {-1, 0} :
         hidapi' = IF result < 0 THEN hidapi
                   ELSE [hidapi EXCEPT !.nonblocking = nonblock]
    /\ UNCHANGED <<alive, session, filter, nCalls, lastCall, devVars, mainThread, uploader>>

ReportArrives ==
    /\ hidapi.pending = <<>>
    /\ \E b \in ArrivingReports : hidapi' = [hidapi EXCEPT !.pending = b]
    /\ UNCHANGED <<alive, session, filter, nCalls, lastCall, devVars, mainThread, uploader>>

\* mds_stream_read_packet is called and reaches the hidapi read.
ReadCall ==
    /\ alive
    /\ hidapi.pc = "idle"
    /\ \E t \in ReadTimeouts :
         /\ hidapi' = [hidapi EXCEPT
                !.pc = "reading",
                !.fn = memfault_hid_read_report(session.device, filter,
                           MDS_MAX_CHUNK_DATA_LEN + 1, t, NoHid).fn,
                !.timeout_ms = t,
                !.waited = 0]
         /\ lastCall' = [op |-> "read_packet", state |-> "called", timeout_ms |-> t,
                         waited |-> 0, pre |-> session, ret |-> 0,
                         packet |-> NoPacket]
    /\ nCalls' = Bump(nCalls)
    /\ UNCHANGED <<alive, session, filter, devVars, mainThread, uploader>>

Tick ==
    /\ hidapi.pc = "reading"
    /\ hidapi.pending = <<>>
    /\ ~HidReadExpired
    /\ hidapi.waited < MaxWait
    /\ hidapi' = [hidapi EXCEPT !.waited = @ + 1]
    /\ lastCall' = [lastCall EXCEPT !.waited = @ + 1]
    /\ UNCHANGED <<alive, session, filter, nCalls, devVars, mainThread, uploader>>

\* The hidapi read returns and mds_stream_read_packet with it.
ReadReturn ==
    /\ hidapi.pc = "reading"
    /\ hidapi.pending # <<>> \/ HidReadExpired
    /\ LET h == IF hidapi.pending # <<>>
                THEN [result |-> Len(hidapi.pending), buffer |-> hidapi.pending]
                ELSE [result |-> 0, buffer |-> <<>>]
           r == mds_stream_read_packet(session, filter, hidapi.timeout_ms, h)
       IN  /\ session' = r.session
           /\ lastCall' = [lastCall EXCEPT !.state = "returned", !.ret = r.ret,
                                           !.packet = r.packet]
    /\ hidapi' = [hidapi EXCEPT !.pc = "idle", !.fn = "none", !.pending = <<>>,
                                !.waited = 0]
    /\ UNCHANGED <<alive, filter, nCalls, devVars, mainThread, uploader>>

NextRead ==
    \/ SetNonblocking
    \/ ReportArrives
    \/ ReadCall
    \/ Tick
    \/ ReadReturn

SpecRead == InitLink /\ [][NextRead]_vars

(***************************************************************************)
(* Timeout policy (checked under SpecRead)                                 *)
(***************************************************************************)
\* C16: mds_stream_read_packet with timeout 0 never waits (it returns at
\* once, with the timeout error if no report is queued); with a positive
\* timeout it waits at most that many milliseconds; with a negative timeout
\* it returns only with a report, never with the timeout error.
C16_TimeoutPolicy ==
    lastCall.op = "read_packet" =>
        /\ lastCall.timeout_ms = 0 => lastCall.waited = 0
        /\ lastCall.timeout_ms > 0 => lastCall.waited <= lastCall.timeout_ms
        /\ (lastCall.timeout_ms < 0 /\ lastCall.state = "returned") =>
             lastCall.ret # MEMFAULT_HID_ERROR_TIMEOUT

(***************************************************************************)
(* SpecCodec: the wire codec applied to buffers (valid pointers).          *)
(* lastCall holds the call: its arguments and what it produced.            *)
(***************************************************************************)
\* Stream-data report bodies: every value of byte 0 alone, and bodies with
\* payloads up to and beyond the 63 bytes a packet holds (64 and 70 bytes).
StreamBuffers ==
    {<<>>}
    \cup {<<b0>> : b0 \in 0..255}
    \cup {<<b0>> \o Payload(n) : b0 \in {0, 37}, n \in {1, 62, 63, 64, 69}}

\* Features reports: each byte from a sample with the low and high bit set
\* and clear, and reports longer than four bytes.
FeatureWords ==
    {<<a, b, c, d>> : a \in {0, 15, 128, 255}, b \in {0, 1, 255}, c \in {0, 2, 255},
                      d \in {0, 128, 255}}
    \cup {<<15, 0, 0, 0, 9>>, <<255, 255, 255, 255, 1, 2>>}

\* String report bodies: every byte string up to MaxStrLen over a sample of
\* bytes that includes NUL, and long ASCII strings.
StringBuffers ==
    UNION {[1..n -> {0, 65, 200}] : n \in 0..MaxStrLen}
    \cup {Bytes(n, 65) : n \in {63, 64, 70}}

\* Destination capacities (max_len): none, small ones, and the 64 bytes of
\* mds_device_config_t.device_identifier.
Capacities == {0, 1, 2, MDS_MAX_DEVICE_ID_LEN}

\* The string a destination holds before the call.
OldString == <<88, 89>>

DecodeStreamPacket ==
    /\ \E b \in StreamBuffers :
         LET r == mds_parse_stream_packet(b, Len(b))
         IN  lastCall' = [op |-> "mds_parse_stream_packet", buffer |-> b,
                          buffer_len |-> Len(b), ret |-> r.ret, packet |-> r.packet]
    /\ UNCHANGED <<alive, session, filter, nCalls, devVars, hidapi, mainThread, uploader>>

DecodeFeatures ==
    /\ \E b \in FeatureWords :
         LET r == mds_parse_supported_features(b, Len(b), uint32_t(0, 0))
         IN  lastCall' = [op |-> "mds_parse_supported_features", buffer |-> b,
                          buffer_len |-> Len(b), ret |-> r.ret,
                          features |-> r.features]
    /\ UNCHANGED <<alive, session, filter, nCalls, devVars, hidapi, mainThread, uploader>>

DecodeString ==
    /\ \E fn \in {"mds_parse_device_identifier", "mds_parse_data_uri",
                  "mds_parse_authorization"},
          b \in StringBuffers, max_len \in Capacities :
         LET r == IF fn = "mds_parse_device_identifier"
                  THEN mds_parse_device_identifier(b, Len(b), OldString, max_len)
                  ELSE IF fn = "mds_parse_data_uri"
                  THEN mds_parse_data_uri(b, Len(b), OldString, max_len)
                  ELSE mds_parse_authorization(b, Len(b), OldString, max_len)
         IN  lastCall' = [op |-> fn, buffer |-> b, buffer_len |-> Len(b),
                          max_len |-> max_len, ret |-> r.ret, dest |-> r.dest,
                          str |-> r.str]
    /\ UNCHANGED <<alive, session, filter, nCalls, devVars, hidapi, mainThread, uploader>>

BuildStreamControl ==
    /\ \E enable \in BOOLEAN, buffer_len \in {0, 1, 2, 64} :
         LET r == mds_build_stream_control(enable, buffer_len)
         IN  lastCall' = [op |-> "mds_build_stream_control", enable |-> enable,
                          buffer_len |-> buffer_len, ret |-> r.ret,
                          buffer |-> r.buffer]
    /\ UNCHANGED <<alive, session, filter, nCalls, devVars, hidapi, mainThread, uploader>>

NextCodec ==
    \/ DecodeStreamPacket
    \/ DecodeFeatures
    \/ DecodeString
    \/ BuildStreamControl

SpecCodec == InitLink /\ [][NextCodec]_vars

\* C21: decoding a stream-data body of n >= 1 bytes succeeds with sequence =
\* byte 0 & 0x1F, data_len = min(n - 1, 63) and the payload equal to the first
\* data_len bytes after byte 0; 64 bytes give data_len 63 and 70 bytes are
\* clamped to 63 without an error.
C21_DecodeStreamPacket ==
    (lastCall.op = "mds_parse_stream_packet" /\ lastCall.buffer_len >= 1) =>
        LET n == lastCall.buffer_len
            k == IF n - 1 < 63 THEN n - 1 ELSE 63
        IN  /\ lastCall.ret = 0
            /\ lastCall.packet.sequence = lastCall.buffer[1] % 32
            /\ lastCall.packet.data_len = k
            /\ Len(lastCall.packet.data) = k
            /\ \A i \in 1..k : lastCall.packet.data[i] = lastCall.buffer[1 + i]
            /\ (n \in {64, 70} => lastCall.packet.data_len = 63)

C21_Witness ==
    /\ lastCall.op = "mds_parse_stream_packet"
    /\ lastCall.buffer_len = 70
    /\ lastCall.ret = 0
    /\ lastCall.packet.data_len = 63
    /\ lastCall.packet.data = SubSeq(lastCall.buffer, 2, 64)

\* C22: for every sequence in 0..31 and every value of the three reserved
\* high bits of byte 0, decoding recovers exactly that sequence; the decoded
\* sequence is always in 0..31.
C22_SequenceRoundTrip ==
    (lastCall.op = "mds_parse_stream_packet" /\ lastCall.buffer_len >= 1) =>
        /\ lastCall.packet.sequence \in 0..31
        /\ \A sequence \in 0..31, reserved \in 0..7 :
             lastCall.buffer[1] = 32 * reserved + sequence
                 => lastCall.packet.sequence = sequence

C22_Witness ==
    /\ lastCall.op = "mds_parse_stream_packet"
    /\ lastCall.buffer_len >= 1
    /\ lastCall.buffer[1] = 32 * 7 + 31
    /\ lastCall.packet.sequence = 31

\* Bit k of a natural number, and of a uint32_t held as two halves.
Bit(n, k) == (n \div (2 ^ k)) % 2
U32Bit(v, k) == IF k < 16 THEN Bit(v.lo, k) ELSE Bit(v.hi, k - 16)

\* C23: decoding a features body of at least four bytes succeeds and yields
\* bytes 0..3 as a little-endian 32-bit value (bit k of the value is bit k % 8
\* of byte k / 8), whatever follows the fourth byte: 0F 00 00 00 gives 15 and
\* FF FF FF FF gives 4294967295 = 65535 * 65536 + 65535.
C23_DecodeFeatures ==
    (lastCall.op = "mds_parse_supported_features" /\ lastCall.buffer_len >= 4) =>
        /\ lastCall.ret = 0
        /\ lastCall.features.lo \in 0..65535
        /\ lastCall.features.hi \in 0..65535
        /\ \A k \in 0..31 :
             U32Bit(lastCall.features, k) = Bit(lastCall.buffer[(k \div 8) + 1], k % 8)
        /\ (SubSeq(lastCall.buffer, 1, 4) = <<15, 0, 0, 0>>
              => lastCall.features = [hi |-> 0, lo |-> 15])
        /\ (SubSeq(lastCall.buffer, 1, 4) = <<255, 255, 255, 255>>
              => lastCall.features = [hi |-> 65535, lo |-> 65535])

C23_Witness ==
    /\ lastCall.op = "mds_parse_supported_features"
    /\ lastCall.buffer = <<255, 255, 255, 255, 1, 2>>
    /\ lastCall.ret = 0
    /\ lastCall.features = [hi |-> 65535, lo |-> 65535]

StringParsers ==
    {"mds_parse_device_identifier", "mds_parse_data_uri", "mds_parse_authorization"}

\* C24: the three string decoders copy exactly min(len, capacity - 1) input
\* bytes verbatim to the start of the destination and write a terminator
\* right after them, never past the capacity; they fail with -EINVAL exactly
\* when the capacity is zero (writing nothing), never for a long input.
C24_DecodeString ==
    (lastCall.op \in StringParsers) =>
        IF lastCall.max_len = 0
        THEN lastCall.ret = -EINVAL /\ lastCall.dest = <<>>
        ELSE LET n == IF lastCall.buffer_len < lastCall.max_len - 1
                      THEN lastCall.buffer_len ELSE lastCall.max_len - 1
             IN  /\ lastCall.ret = 0
                 /\ Len(lastCall.dest) = n + 1
                 /\ \A i \in 1..n : lastCall.dest[i] = lastCall.buffer[i]
                 /\ lastCall.dest[n + 1] = 0
                 /\ Len(lastCall.dest) <= lastCall.max_len

C24_Witness ==
    /\ lastCall.op = "mds_parse_data_uri"
    /\ lastCall.buffer_len = 70
    /\ lastCall.max_len = 64
    /\ lastCall.ret = 0
    /\ lastCall.dest = SubSeq(lastCall.buffer, 1, 63) \o <<0>>

\* C25 as stated: an identifier longer than the capacity always decodes to a
\* string of length exactly capacity - 1, whatever bytes the input holds.
C25_TruncatedLengthAnyContent ==
    (/\ lastCall.op = "mds_parse_device_identifier"
     /\ lastCall.max_len >= 1
     /\ lastCall.buffer_len > lastCall.max_len) =>
        /\ lastCall.ret = 0
        /\ Len(lastCall.str) = lastCall.max_len - 1

\* C25: an identifier longer than the capacity (>= 1) is truncated: exactly
\* capacity - 1 input bytes are written, then the terminator; the string is
\* never longer than capacity - 1 and has exactly that length when none of
\* those bytes is zero.
C25_TruncatedLength ==
    (/\ lastCall.op = "mds_parse_device_identifier"
     /\ lastCall.max_len >= 1
     /\ lastCall.buffer_len > lastCall.max_len) =>
        LET n == lastCall.max_len - 1
        IN  /\ lastCall.ret = 0
            /\ lastCall.dest = SubSeq(lastCall.buffer, 1, n) \o <<0>>
            /\ Len(lastCall.str) <= n
            /\ ((\A i \in 1..n : lastCall.buffer[i] # 0)
                  => lastCall.str = SubSeq(lastCall.buffer, 1, n))

C25_Witness ==
    /\ lastCall.op = "mds_parse_device_identifier"
    /\ lastCall.buffer_len = 70
    /\ lastCall.max_len = 64
    /\ Len(lastCall.str) = 63

\* C26: building a stream-control body writes exactly one byte, 0x01 to
\* enable and 0x00 to disable, and returns 1; with capacity 0 it returns
\* -EINVAL and writes nothing.
C26_BuildStreamControl ==
    (lastCall.op = "mds_build_stream_control") =>
        IF lastCall.buffer_len = 0
        THEN lastCall.ret = -EINVAL /\ lastCall.buffer = <<>>
        ELSE /\ lastCall.ret = 1
             /\ lastCall.buffer = << IF lastCall.enable THEN 1 ELSE 0 >>

C26_Witness ==
    /\ lastCall.op = "mds_build_stream_control"
    /\ lastCall.enable
    /\ lastCall.buffer_len = 64
    /\ lastCall.ret = 1
    /\ lastCall.buffer = <<1>>

(***************************************************************************)
(* SpecDevice: the device.  main()'s loop and mds_send_chunk run in the    *)
(* main thread; mds_set_report and mds_iface_ready are called by the USB   *)
(* stack in its own thread.  struct mds_state is shared without a lock, so *)
(* the callbacks may run between any two steps of the main thread.          *)
(* mainThread.submitted holds the sequence bytes of the stream-data        *)
(* reports submitted since streaming was last enabled (the last two).      *)
(***************************************************************************)
\* Results of hid_device_submit_report: success or an error.
SubmitResults == {0, -EIO}

KeepLast(s, x) == IF Len(s) < 2 THEN Append(s, x) ELSE <<s[2], x>>

\* while (true): if (!mds.hid_ready) { sleep; continue; }
MainLoop ==
    /\ mainThread.pc = "loop"
    /\ mainThread' = [mainThread EXCEPT !.pc = IF mds.hid_ready THEN "check_streaming"
                                               ELSE "loop"]
    /\ UNCHANGED <<alive, session, filter, nCalls, lastCall, devVars, hidapi, uploader>>

\* if (!mds.streaming_enabled) { sleep; continue; }
MainCheckStreaming ==
    /\ mainThread.pc = "check_streaming"
    /\ mainThread' = [mainThread EXCEPT !.pc = IF mds.streaming_enabled THEN "send_chunk"
                                               ELSE "loop"]
    /\ UNCHANGED <<alive, session, filter, nCalls, lastCall, devVars, hidapi, uploader>>

\* Chunks the packetizer hands out: the shortest and the longest (1..63 bytes).
Chunks == {Payload(1), Payload(MDS_MAX_CHUNK_DATA_LEN)}

\* The 65 bytes mds_send_chunk builds: report ID, sequence, the chunk, zero
\* padding up to 63 data bytes.
mds_send_chunk_report(m, chunk) ==
    <<MDS_REPORT_ID_STREAM_DATA, BitAnd(m.chunk_number, MDS_SEQUENCE_MASK)>>
    \o chunk
    \o [i \in 1..(63 - Len(chunk)) |-> 0]

\* mds_send_chunk up to the submit: fetch a chunk, build the report.
MainBuildReport ==
    /\ mainThread.pc = "send_chunk"
    /\ \/ mainThread' = [mainThread EXCEPT !.pc = "loop", !.ret = 0]
       \/ \E chunk \in Chunks :
            mainThread' = [mainThread EXCEPT
                             !.pc = "submit",
                             !.chunk = chunk,
                             !.report = mds_send_chunk_report(mds, chunk)]
    /\ UNCHANGED <<alive, session, filter, nCalls, lastCall, devVars, hidapi, uploader>>

\* Faulty variant: the chunk counter advances after a failed submit as well.
MainSubmitReport_AdvancesOnError ==
    /\ mainThread.pc = "submit"
    /\ \E ret \in SubmitResults :
         mainThread' = [mainThread EXCEPT
                          !.pc = "advance",
                          !.ret = ret,
                          !.lastSubmit = [report |-> mainThread.report,
                                          chunk |-> mainThread.chunk,
                                          ret |-> ret, abort |-> ret # 0,
                                          streaming_enabled |-> mds.streaming_enabled,
                                          hid_ready |-> mds.hid_ready]]
    /\ UNCHANGED <<alive, session, filter, nCalls, lastCall, devVars, hidapi, uploader>>

\* hid_device_submit_report(hid_dev, 65, report) and the error return.
MainSubmitReport ==
    /\ mainThread.pc = "submit"
    /\ \E ret \in SubmitResults :
         LET call == [report |-> mainThread.report, chunk |-> mainThread.chunk,
                      ret |-> ret, abort |-> ret # 0,
                      streaming_enabled |-> mds.streaming_enabled,
                      hid_ready |-> mds.hid_ready]
         IN  mainThread' =
               IF ret # 0
               THEN [mainThread EXCEPT !.pc = "loop", !.ret = ret, !.lastSubmit = call]
               ELSE [mainThread EXCEPT
                       !.pc = "advance",
                       !.lastSubmit = call,
                       !.submitted = IF mds.streaming_enabled
                                     THEN KeepLast(@, mainThread.report[2])
                                     ELSE @]
    /\ UNCHANGED <<alive, session, filter, nCalls, lastCall, devVars, hidapi, uploader>>

\* mds.chunk_number = (mds.chunk_number + 1) & MDS_SEQUENCE_MASK; return.
MainAdvance ==
    /\ mainThread.pc = "advance"
    /\ mds' = [mds EXCEPT !.chunk_number = BitAnd(@ + 1, MDS_SEQUENCE_MASK)]
    /\ mainThread' = [mainThread EXCEPT !.pc = "loop", !.ret = Len(mainThread.chunk)]
    /\ UNCHANGED <<alive, session, filter, nCalls, lastCall, wire, lastSetReport, hidapi, uploader>>

\* Stream-control feature reports the USB stack delivers: too short, disable,
\* enable, an undefined mode.
StreamModes ==
    {<<MDS_REPORT_ID_STREAM_CONTROL>>,
     <<MDS_REPORT_ID_STREAM_CONTROL, MDS_STREAM_MODE_DISABLED>>,
     <<MDS_REPORT_ID_STREAM_CONTROL, MDS_STREAM_MODE_ENABLED>>,
     <<MDS_REPORT_ID_STREAM_CONTROL, 2>>}

\* The USB stack delivers a stream-control feature report to mds_set_report.
UsbSetReport ==
    /\ \E buf \in StreamModes :
         LET r == mds_set_report(mds, HID_REPORT_TYPE_FEATURE,
                                 MDS_REPORT_ID_STREAM_CONTROL, Len(buf), buf)
         IN  /\ mds' = r.mds
             /\ lastSetReport' = [from |-> "usb", ok |-> TRUE,
                                  type |-> HID_REPORT_TYPE_FEATURE,
                                  id |-> MDS_REPORT_ID_STREAM_CONTROL, ret |-> r.ret,
                                  buf |-> buf]
             /\ mainThread' = [mainThread EXCEPT
                                 !.submitted = IF r.mds.streaming_enabled THEN @ ELSE <<>>]
    /\ UNCHANGED <<alive, session, filter, nCalls, lastCall, wire, hidapi, uploader>>

NextDevice ==
    \/ MainLoop
    \/ MainCheckStreaming
    \/ MainBuildReport
    \/ MainSubmitReport
    \/ MainAdvance
    \/ UsbSetReport
    \/ DevIfaceReady

SpecDevice == Init /\ [][NextDevice]_vars

\* C27: the sequence bytes of stream-data reports submitted one after the
\* other within one streaming period are in 0..31 and each is the previous
\* one plus 1 modulo 32 (0 follows 31).
C27_DeviceSequence ==
    /\ \A i \in 1..Len(mainThread.submitted) : mainThread.submitted[i] \in 0..31
    /\ Len(mainThread.submitted) = 2
         => mainThread.submitted[2] = (mainThread.submitted[1] + 1) % 32

(***************************************************************************)
(* SpecFilter: the four report channels of a device under every filter     *)
(* configuration (valid device and data pointers).  lastCall holds the     *)
(* call: the filter in force, the report ID, whether hidapi was called     *)
(* (io) and the value returned.                                            *)
(***************************************************************************)
\* Filter configurations: disabled and enabled, with and without a list.
ReportFilters ==
    {[filter_enabled |-> e, report_ids |-> l] :
        e \in BOOLEAN, l \in {<<>>, <<5>>, <<1, 6>>}}

\* Report IDs: the MDS ones in and out of the lists, and foreign ones.
ReportIds == {0, 1, 5, 6, 7}

\* What hid_read_timeout and hid_get_feature_report return: an error, nothing
\* (a timeout), or a report with its ID in byte 0.
HidReports ==
    {[result |-> -1, buffer |-> <<>>], [result |-> 0, buffer |-> <<>>]}
    \cup {[result |-> 3, buffer |-> <<id, 17, 18>>] : id \in ReportIds}

\* memfault_hid_set_report_filter with a well-formed filter.
SetAnyReportFilter ==
    /\ \E f \in ReportFilters : filter' = f
    /\ UNCHANGED <<alive, session, nCalls, lastCall, devVars, hidapi, mainThread, uploader>>

HidWriteReport ==
    /\ \E report_id \in ReportIds, hid_result \in {-1, 3} :
         LET r == memfault_hid_write_report(session.device, filter, report_id,
                                            <<17, 18>>, 2, hid_result)
         IN  lastCall' = [op |-> "memfault_hid_write_report", filter |-> filter,
                          report_id |-> report_id, arrived |-> TRUE,
                          io |-> r.io, ret |-> r.ret]
    /\ UNCHANGED <<alive, session, filter, nCalls, devVars, hidapi, mainThread, uploader>>

HidReadReport ==
    /\ \E hid \in HidReports :
         LET r == memfault_hid_read_report(session.device, filter,
                                           MEMFAULT_HID_MAX_REPORT_SIZE, 100, hid)
         IN  lastCall' = [op |-> "memfault_hid_read_report", filter |-> filter,
                          report_id |-> IF hid.result > 0 THEN hid.buffer[1] ELSE -1,
                          arrived |-> hid.result > 0,
                          io |-> r.io, ret |-> r.ret]
    /\ UNCHANGED <<alive, session, filter, nCalls, devVars, hidapi, mainThread, uploader>>

HidGetFeatureReport ==
    /\ \E report_id \in ReportIds, result \in {-1, 3} :
         LET hid == [result |-> result,
                     buffer |-> IF result > 0 THEN <<report_id, 17, 18>> ELSE <<>>]
             r == memfault_hid_get_feature_report(session.device, filter, report_id,
                                                  MEMFAULT_HID_MAX_REPORT_SIZE, hid)
         IN  lastCall' = [op |-> "memfault_hid_get_feature_report", filter |-> filter,
                          report_id |-> report_id, arrived |-> TRUE,
                          io |-> r.io, ret |-> r.ret]
    /\ UNCHANGED <<alive, session, filter, nCalls, devVars, hidapi, mainThread, uploader>>

HidSetFeatureReport ==
    /\ \E report_id \in ReportIds, hid_result \in {-1, 3} :
         LET r == memfault_hid_set_feature_report(session.device, filter, report_id,
                                                  <<17, 18>>, 2, hid_result)
         IN  lastCall' = [op |-> "memfault_hid_set_feature_report", filter |-> filter,
                          report_id |-> report_id, arrived |-> TRUE,
                          io |-> r.io, ret |-> r.ret]
    /\ UNCHANGED <<alive, session, filter, nCalls, devVars, hidapi, mainThread, uploader>>

NextFilter ==
    \/ SetAnyReportFilter
    \/ HidWriteReport
    \/ HidReadReport
    \/ HidGetFeatureReport
    \/ HidSetFeatureReport

SpecFilter == InitLink /\ [][NextFilter]_vars

ChannelOps ==
    {"memfault_hid_write_report", "memfault_hid_read_report",
     "memfault_hid_get_feature_report", "memfault_hid_set_feature_report"}

InFilterList(f, report_id) ==
    \E i \in 1..Len(f.report_ids) : f.report_ids[i] = report_id

\* C28: while the filter is enabled, a write, get-feature or set-feature
\* with a report ID outside the list, and an input read that receives such a
\* report, return MEMFAULT_HID_ERROR_INVALID_REPORT_TYPE, the first three
\* without calling hidapi; while the filter is disabled no call returns it.
C28_ReportFilter ==
    (lastCall.op \in ChannelOps) =>
        /\ (/\ lastCall.filter.filter_enabled
            /\ lastCall.arrived
            /\ ~InFilterList(lastCall.filter, lastCall.report_id))
             => /\ lastCall.ret = MEMFAULT_HID_ERROR_INVALID_REPORT_TYPE
                /\ (lastCall.op # "memfault_hid_read_report" => ~lastCall.io)
        /\ ~lastCall.filter.filter_enabled
             => lastCall.ret # MEMFAULT_HID_ERROR_INVALID_REPORT_TYPE

C28_Witness ==
    /\ lastCall.op = "memfault_hid_set_feature_report"
    /\ lastCall.filter = [filter_enabled |-> TRUE, report_ids |-> <<1, 6>>]
    /\ lastCall.report_id = 5
    /\ lastCall.ret = MEMFAULT_HID_ERROR_INVALID_REPORT_TYPE
    /\ ~lastCall.io

(***************************************************************************)
(* SpecSession: every operation on a session, from before its creation.    *)
(***************************************************************************)
NextSession ==
    \/ SessionCreate
    \/ SessionDestroy
    \/ StreamEnable
    \/ StreamDisable
    \/ StreamReadPacket
    \/ SetUploadCallback
    \/ StreamProcess
    \/ UpdateLastSequence
    \/ ReadDeviceConfig

SpecSession == Init /\ [][NextSession]_vars

\* C29: whatever session operations have run (create, enable, disable,
\* read_packet, process, update_last_sequence with any byte, set the sink,
\* read the configuration), last_sequence of a live session is in 0..31.
C29_LastSequenceRange ==
    alive => session.last_sequence \in 0..31

C29_Witness ==
    /\ alive
    /\ lastCall.op = "update_last_sequence"
    /\ lastCall.pre.last_sequence # 31
    /\ session.last_sequence = 31

\* The channel writes a call made (none for calls that only read).
WritesOf(c) == IF "writes" \in DOMAIN c THEN c.writes ELSE <<>>

\* The stream-control writes of a call that succeeded, by position.
SucceededControlWrites(c) ==
    {i \in 1..Len(WritesOf(c)) :
        /\ WritesOf(c)[i].report_id = MDS_REPORT_ID_STREAM_CONTROL
        /\ WritesOf(c)[i].ret >= 0}

C30_Step ==
    alive' =>
        LET ok == SucceededControlWrites(lastCall')
        IN  IF ok # {}
            THEN LET last == CHOOSE i \in ok : \A j \in ok : j <= i
                 IN  session'.streaming_enabled = (WritesOf(lastCall')[last].data = <<1>>)
            ELSE IF ~alive
            THEN ~session'.streaming_enabled
            ELSE session'.streaming_enabled = session.streaming_enabled

\* C30: the streaming state of a session follows the most recent successful
\* stream-control write: a step whose call made one leaves the state enabled
\* exactly when that write carried 0x01; a new session starts disabled; every
\* other step (a failed write, read_packet, process, read_device_config,
\* setting the sink, update_last_sequence) leaves the state as it was.
C30_StreamingFollowsWrites == [][C30_Step]_vars

C30_Witness ==
    /\ alive
    /\ lastCall.op = "disable"
    /\ lastCall.pre.streaming_enabled
    /\ Len(lastCall.writes) = 1
    /\ lastCall.writes[1].ret < 0
    /\ session.streaming_enabled

\* C31: a failed mds_stream_read_packet (channel error, timeout, a report
\* with another ID, a report without a sequence byte) leaves last_sequence,
\* the streaming state and the registered sink as they were.
C31_FailedReadFrame ==
    (lastCall.op = "read_packet" /\ lastCall.ret < 0) =>
        /\ session.last_sequence = lastCall.pre.last_sequence
        /\ session.streaming_enabled = lastCall.pre.streaming_enabled
        /\ session.upload_callback = lastCall.pre.upload_callback
        /\ session.upload_user_data = lastCall.pre.upload_user_data

C31_Witness ==
    /\ lastCall.op = "read_packet"
    /\ lastCall.ret = -EINVAL
    /\ lastCall.hid.result > 0
    /\ lastCall.hid.buffer[1] = 7
    /\ lastCall.pre.last_sequence # MDS_SEQUENCE_MAX
    /\ lastCall.pre.streaming_enabled
    /\ lastCall.pre.upload_callback # NULL
    /\ session = lastCall.pre

\* C32 as stated: mds_stream_process hands a chunk to the sink only while the
\* session is enabled.
C32_DeliveryOnlyWhenEnabled ==
    (lastCall.op = "process" /\ lastCall.sink # <<>>) =>
        lastCall.pre.streaming_enabled

\* C32: mds_stream_process hands a chunk to the sink exactly when its read
\* succeeded and a sink is registered; the streaming state is not consulted,
\* so a stream-data report read in state Disabled is delivered as well.
C32_DeliveryNotGated ==
    (lastCall.op = "process") =>
        /\ session.streaming_enabled = lastCall.pre.streaming_enabled
        /\ (lastCall.sink # <<>>)
             <=> (lastCall.read_ret = 0 /\ lastCall.reads = 1
                  /\ lastCall.pre.upload_callback # NULL)

C32_Witness ==
    /\ lastCall.op = "process"
    /\ ~lastCall.pre.streaming_enabled
    /\ lastCall.read_ret = 0
    /\ Len(lastCall.sink) = 1
    /\ lastCall.sink[1].chunk_len = 63

\* C34: a stream-control feature report with mode 0x01 enables streaming and
\* leaves the chunk counter as it is; mode 0x00 disables streaming and resets
\* the counter to 0; any other mode, or a report shorter than 2 bytes, returns
\* -EINVAL and leaves both as they were.  (A step that leaves the main
\* thread's position and hid_ready alone is a call of mds_set_report.)
C34_Step ==
    (/\ lastSetReport'.from = "usb"
     /\ mainThread'.pc = mainThread.pc
     /\ mds'.hid_ready = mds.hid_ready) =>
        LET buf == lastSetReport'.buf
        IN  IF Len(buf) >= 2 /\ buf[2] = 1
            THEN /\ lastSetReport'.ret = 0
                 /\ mds'.streaming_enabled
                 /\ mds'.chunk_number = mds.chunk_number
            ELSE IF Len(buf) >= 2 /\ buf[2] = 0
            THEN /\ lastSetReport'.ret = 0
                 /\ ~mds'.streaming_enabled
                 /\ mds'.chunk_number = 0
            ELSE /\ lastSetReport'.ret = -EINVAL
                 /\ mds' = mds

C34_DeviceStreamControl == [][C34_Step]_vars

C34_Witness ==
    /\ lastSetReport.from = "usb"
    /\ lastSetReport.buf = <<5, 1>>
    /\ lastSetReport.ret = 0
    /\ mds.streaming_enabled
    /\ mds.chunk_number = 7
    /\ mainThread.pc = "loop"

\* C35: the device submits no stream-data report after a stream-control
\* disable has been processed and before the next enable, and none while
\* the HID interface is not ready.
C35_NoSubmitWhileDisabled ==
    (mainThread.lastSubmit.report # <<>> /\ mainThread.lastSubmit.ret = 0) =>
        /\ mainThread.lastSubmit.streaming_enabled
        /\ mainThread.lastSubmit.hid_ready

\* C36: the first stream-data report submitted in a streaming period (after
\* a disable followed by an enable) carries sequence 0.
C36_FirstSequenceZero ==
    Len(mainThread.submitted) = 1 => mainThread.submitted[1] = 0

\* The most recent submit of a stream-data report failed.
FailedSubmit ==
    mainThread.lastSubmit.report # <<>> /\ mainThread.lastSubmit.ret # 0

C37_Inv ==
    FailedSubmit =>
        /\ mainThread.lastSubmit.abort
        /\ mainThread.pc # "advance"
        /\ mds.chunk_number \in {mainThread.lastSubmit.report[2], 0}
        /\ mainThread.pc = "submit"
             => mainThread.report[2] \in {mainThread.lastSubmit.report[2], 0}

\* The failing submit returns its error without touching mds_state; the
\* counter moves to a non-zero value only in the step after a successful
\* submit of the report just built.
C37_Step ==
    /\ (mainThread.pc = "submit" /\ mainThread'.pc = "loop")
         => /\ mainThread'.lastSubmit.ret # 0
            /\ mainThread'.ret = mainThread'.lastSubmit.ret
            /\ mainThread'.lastSubmit.abort
            /\ mds' = mds
    /\ (mds'.chunk_number # mds.chunk_number /\ mds'.chunk_number # 0)
         => /\ mainThread.pc = "advance"
            /\ mainThread.lastSubmit.ret = 0
            /\ mainThread.lastSubmit.report = mainThread.report
            /\ mds'.chunk_number = mds.chunk_number + 1

InitChunk ==
    /\ alive = TRUE
    /\ LET s0 == mds_session_create("hid0")
           s1 == mds_stream_enable(s0, NoFilter, 2).session
           r  == mds_set_upload_callback(s1, "mds_uploader_callback", "uploader1")
       IN  /\ session = r.session
           /\ lastCall = Call("set_upload_callback", r.ret, s1)
    /\ filter = NoFilter
    /\ nCalls = 2
    /\ mds = [hid_ready |-> TRUE, streaming_enabled |-> TRUE, chunk_number |-> 0]
    /\ wire = <<>>
    /\ lastSetReport = NoSetReport
    /\ HidInit
    /\ MainInit
    /\ UploaderInit

\* The packetizer holds a bounded amount of data: MaxChunks chunks.
MaxChunks == 3

ChunkBuildReport ==
    /\ mds.chunk_number < MaxChunks
    /\ MainBuildReport

\* mds_stream_process on the stream-data report that arrived from the device.
ProcessSubmitted ==
    /\ alive
    /\ mainThread.pc = "advance"
    /\ mainThread.lastSubmit.report # <<>>
    /\ mainThread.lastSubmit.ret = 0
    /\ ~(lastCall.op = "process" /\ lastCall.hid.buffer = mainThread.lastSubmit.report)
    /\ \E c \in Configs :
         LET h == [result |-> Len(mainThread.lastSubmit.report),
                   buffer |-> mainThread.lastSubmit.report]
             r == mds_stream_process(session, filter, c, 100, h, 0)
         IN  /\ session' = r.session
             /\ lastCall' = [chunk |-> mainThread.lastSubmit.chunk]
                            @@ [Call("process", r.ret, session) EXCEPT
                                   !.hid = h,
                                   !.config = c,
                                   !.packet = r.packet,
                                   !.reads = r.reads,
                                   !.read_ret = r.read_ret,
                                   !.checks = r.checks,
                                   !.sink = r.sink]
    /\ nCalls' = Bump(nCalls)
    /\ UNCHANGED <<alive, filter, devVars, hidapi, mainThread, uploader>>

NextChunk ==
    \/ MainLoop
    \/ MainCheckStreaming
    \/ ChunkBuildReport
    \/ MainSubmitReport
    \/ MainAdvance
    \/ ProcessSubmitted

SpecChunk == InitChunk /\ [][NextChunk]_vars

\* C33: for every chunk of 1..63 bytes the device submitted, the bytes and
\* the length mds_stream_process passes to the sink are that chunk's bytes
\* and length.
C33_ChunkIntegrity ==
    (/\ lastCall.op = "process"
     /\ "chunk" \in DOMAIN lastCall
     /\ Len(lastCall.chunk) \in 1..63) =>
        /\ Len(lastCall.sink) = 1
        /\ lastCall.sink[1].chunk_data = lastCall.chunk
        /\ lastCall.sink[1].chunk_len = Len(lastCall.chunk)

(***************************************************************************)
(* SpecBuffer: the transport's internal report buffer.  Each report        *)
(* function declares uint8_t buffer[MEMFAULT_HID_MAX_REPORT_SIZE + 1] and  *)
(* hands it to hidapi with a length; lastCall records, for one call the    *)
(* session issues, the length hidapi was given, the bytes of the buffer    *)
(* the call touches and the byte count of its memcpy into the caller's     *)
(* data.  hidapi returns -1 or a count up to the length it was given.      *)
(***************************************************************************)
ReportBufferSize == MEMFAULT_HID_MAX_REPORT_SIZE + 1

\* buffer[0] = report_id; hid_get_feature_report(handle, buffer, length + 1);
\* memcpy(data, buffer + 1, result - 1) unless result < 0.
memfault_hid_get_feature_report_access(report_id, length, result) ==
    [op |-> "get_feature_report", report_id |-> report_id,
     buffer_size |-> ReportBufferSize, data_size |-> length,
     hid_len |-> length + 1, result |-> result,
     buffer_used |-> IF result > 1 THEN result ELSE 1,
     copied |-> result >= 0,
     copy_len |-> IF result >= 0 THEN result - 1 ELSE 0]

\* buffer[0] = report_id; memcpy(buffer + 1, data, length);
\* hid_write(handle, buffer, length + 1).
memfault_hid_write_report_access(report_id, length, result) ==
    [op |-> "write_report", report_id |-> report_id,
     buffer_size |-> ReportBufferSize, data_size |-> length,
     hid_len |-> length + 1, result |-> result,
     buffer_used |-> length + 1,
     copied |-> FALSE,
     copy_len |-> 0]

\* hid_read_timeout(handle, buffer, sizeof(buffer), timeout_ms); the copy
\* into data is clamped to length and skipped unless result > 0.
memfault_hid_read_report_access(length, result) ==
    [op |-> "read_report", report_id |-> MDS_REPORT_ID_STREAM_DATA,
     buffer_size |-> ReportBufferSize, data_size |-> length,
     hid_len |-> ReportBufferSize, result |-> result,
     buffer_used |-> IF result > 1 THEN result ELSE 1,
     copied |-> result > 0,
     copy_len |-> IF result > 0
                  THEN (IF result - 1 > length THEN length ELSE result - 1)
                  ELSE 0]

\* The feature reads of mds_get_supported_features, mds_get_device_identifier,
\* mds_get_data_uri and mds_get_authorization: report id and sizeof(data).
FeatureReads ==
    {[report_id |-> MDS_REPORT_ID_SUPPORTED_FEATURES, length |-> 4],
     [report_id |-> MDS_REPORT_ID_DEVICE_IDENTIFIER, length |-> MDS_MAX_DEVICE_ID_LEN],
     [report_id |-> MDS_REPORT_ID_DATA_URI, length |-> MDS_MAX_URI_LEN],
     [report_id |-> MDS_REPORT_ID_AUTHORIZATION, length |-> MDS_MAX_AUTH_LEN]}

SessionGetFeature ==
    /\ alive
    /\ session.device # NULL
    /\ \E req \in FeatureReads :
         /\ ~is_report_filtered(filter, req.report_id)
         /\ \E result \in (-1)..(req.length + 1) :
              lastCall' = memfault_hid_get_feature_report_access(req.report_id,
                                                                 req.length, result)
    /\ UNCHANGED <<alive, session, filter, nCalls, devVars, hidapi, mainThread, uploader>>

\* mds_stream_enable / mds_stream_disable: uint8_t buffer[1], length 1.
SessionWriteControl ==
    /\ alive
    /\ session.device # NULL
    /\ ~is_report_filtered(filter, MDS_REPORT_ID_STREAM_CONTROL)
    /\ \E result \in (-1)..2 :
         lastCall' = memfault_hid_write_report_access(MDS_REPORT_ID_STREAM_CONTROL,
                                                      1, result)
    /\ UNCHANGED <<alive, session, filter, nCalls, devVars, hidapi, mainThread, uploader>>

\* mds_stream_read_packet: uint8_t data[MDS_MAX_CHUNK_DATA_LEN + 1].
SessionReadStream ==
    /\ alive
    /\ session.device # NULL
    /\ \E result \in (-1)..ReportBufferSize :
         lastCall' = memfault_hid_read_report_access(MDS_MAX_CHUNK_DATA_LEN + 1, result)
    /\ UNCHANGED <<alive, session, filter, nCalls, devVars, hidapi, mainThread, uploader>>

NextBuffer ==
    \/ SessionGetFeature
    \/ SessionWriteControl
    \/ SessionReadStream

SpecBuffer == Init /\ [][NextBuffer]_vars

BufferOps == {"get_feature_report", "write_report", "read_report"}

\* C38: for every request the session issues, the transport hands hidapi no
\* more than the 65 bytes of its internal buffer, touches no byte of the
\* buffer beyond them, and copies a byte count between 0 and the size of the
\* caller's buffer.
C38_BufferBounds ==
    (/\ "op" \in DOMAIN lastCall
     /\ lastCall.op \in BufferOps) =>
        /\ lastCall.hid_len <= lastCall.buffer_size
        /\ lastCall.buffer_used <= lastCall.buffer_size
        /\ lastCall.copied =>
              /\ lastCall.copy_len >= 0
              /\ lastCall.copy_len <= lastCall.data_size

(***************************************************************************)
(* SpecUploader: the HTTP uploader's statistics.  libcurl and malloc are   *)
(* the environment: env.header_name and env.full_header say whether the    *)
(* two allocations succeed, env.res is curl_easy_perform's result and      *)
(* env.http_code the response code curl_easy_getinfo reports.              *)
(* uploader.calls counts the calls that passed the argument check since    *)
(* the last reset of the statistics.                                       *)
(***************************************************************************)
MaxUploads == 3

\* strchr(s, c) != NULL, on the characters of the header strings used here.
strchr(s, c) ==
    LET chars == CASE s = "Memfault-Project-Key:abc" ->
                         <<"Memfault-Project-Key", ":", "a", "b", "c">>
                   [] s = "Memfault-Project-Key" -> <<"Memfault-Project-Key">>
                   [] OTHER -> <<>>
    IN  \E i \in 1..Len(chars) : chars[i] = c

\* Faulty variant: a response outside 2xx is not counted as a failure.
mds_uploader_callback_HttpErrorUncounted(u, uri, auth_header, chunk_data, chunk_len, user_data, env) ==
    IF uri = NULL \/ auth_header = NULL \/ chunk_data = NULL \/ user_data = NULL
    THEN [ret |-> -EINVAL, stats |-> u.stats]
    ELSE IF ~strchr(auth_header, ":")
    THEN [ret |-> -EINVAL,
          stats |-> [u.stats EXCEPT !.upload_failures = @ + 1]]
    ELSE IF ~env.header_name \/ ~env.full_header
    THEN [ret |-> -ENOMEM,
          stats |-> [u.stats EXCEPT !.upload_failures = @ + 1]]
    ELSE IF env.res # "CURLE_OK"
    THEN [ret |-> -EIO,
          stats |-> [u.stats EXCEPT !.last_http_status = env.http_code,
                                    !.upload_failures = @ + 1]]
    ELSE IF env.http_code < 200 \/ env.http_code >= 300
    THEN [ret |-> -EIO,
          stats |-> [u.stats EXCEPT !.last_http_status = env.http_code]]
    ELSE [ret |-> 0,
          stats |-> [u.stats EXCEPT !.last_http_status = env.http_code,
                                    !.chunks_uploaded = @ + 1,
                                    !.bytes_uploaded = @ + chunk_len]]

\* u: the struct mds_uploader user_data points to.
mds_uploader_callback(u, uri, auth_header, chunk_data, chunk_len, user_data, env) ==
    IF uri = NULL \/ auth_header = NULL \/ chunk_data = NULL \/ user_data = NULL
    THEN [ret |-> -EINVAL, stats |-> u.stats]
    ELSE IF ~strchr(auth_header, ":")
    THEN [ret |-> -EINVAL,
          stats |-> [u.stats EXCEPT !.upload_failures = @ + 1]]
    ELSE IF ~env.header_name \/ ~env.full_header
    THEN [ret |-> -ENOMEM,
          stats |-> [u.stats EXCEPT !.upload_failures = @ + 1]]
    ELSE IF env.res # "CURLE_OK"
    THEN [ret |-> -EIO,
          stats |-> [u.stats EXCEPT !.last_http_status = env.http_code,
                                    !.upload_failures = @ + 1]]
    ELSE IF env.http_code < 200 \/ env.http_code >= 300
    THEN [ret |-> -EIO,
          stats |-> [u.stats EXCEPT !.last_http_status = env.http_code,
                                    !.upload_failures = @ + 1]]
    ELSE [ret |-> 0,
          stats |-> [u.stats EXCEPT !.last_http_status = env.http_code,
                                    !.chunks_uploaded = @ + 1,
                                    !.bytes_uploaded = @ + chunk_len]]

mds_uploader_reset_stats(u, ptr) ==
    IF ptr = NULL
    THEN [ret |-> -EINVAL, stats |-> u.stats]
    ELSE [ret |-> 0, stats |-> NoStats]

UploaderCallback ==
    /\ uploader.calls < MaxUploads
    /\ \E null \in {"none", "uri", "auth_header", "chunk_data", "user_data"},
          header \in {"Memfault-Project-Key:abc", "Memfault-Project-Key"},
          chunk_len \in {1, MDS_MAX_CHUNK_DATA_LEN},
          env \in [header_name : BOOLEAN, full_header : BOOLEAN,
                   res : {"CURLE_OK", "CURLE_COULDNT_CONNECT"},
                   http_code : {199, 200, 299, 300}] :
         LET uri == IF null = "uri" THEN NULL ELSE "https://x/chunks/DEV123"
             auth_header == IF null = "auth_header" THEN NULL ELSE header
             chunk_data == IF null = "chunk_data" THEN NULL ELSE "chunk"
             user_data == IF null = "user_data" THEN NULL ELSE "uploader1"
             r == mds_uploader_callback(uploader, uri, auth_header, chunk_data,
                                        chunk_len, user_data, env)
             valid == /\ uri # NULL
                      /\ auth_header # NULL
                      /\ chunk_data # NULL
                      /\ user_data # NULL
         IN  /\ uploader' = [stats |-> r.stats,
                             calls |-> IF valid THEN uploader.calls + 1
                                       ELSE uploader.calls]
             /\ lastCall' = [op |-> "uploader_callback", ret |-> r.ret,
                             valid |-> valid, chunk_len |-> chunk_len,
                             res |-> env.res, http_code |-> env.http_code,
                             pre |-> uploader.stats]
    /\ UNCHANGED <<alive, session, filter, nCalls, devVars, hidapi, mainThread>>

UploaderResetStats ==
    /\ \E ptr \in {NULL, "uploader1"} :
         LET r == mds_uploader_reset_stats(uploader, ptr)
         IN  /\ uploader' = [stats |-> r.stats,
                             calls |-> IF r.ret = 0 THEN 0 ELSE uploader.calls]
             /\ lastCall' = [op |-> "uploader_reset_stats", ret |-> r.ret,
                             pre |-> uploader.stats]
    /\ UNCHANGED <<alive, session, filter, nCalls, devVars, hidapi, mainThread>>

NextUploader ==
    \/ UploaderCallback
    \/ UploaderResetStats

SpecUploader == Init /\ [][NextUploader]_vars

\* C39: a callback call that passed the argument check either returned 0
\* after a transfer that succeeded with a 2xx status, and added one to
\* chunks_uploaded and chunk_len to bytes_uploaded, or returned a negative
\* error and added one to upload_failures, never both; and chunks_uploaded +
\* upload_failures is the number of such calls since the last reset.
C39_UploaderStats ==
    /\ uploader.stats.chunks_uploaded + uploader.stats.upload_failures = uploader.calls
    /\ (lastCall.op = "uploader_callback" /\ lastCall.valid) =>
          LET pre  == lastCall.pre
              post == uploader.stats
          IN  \/ /\ lastCall.ret = 0
                 /\ lastCall.res = "CURLE_OK"
                 /\ lastCall.http_code \in 200..299
                 /\ post.chunks_uploaded = pre.chunks_uploaded + 1
                 /\ post.bytes_uploaded = pre.bytes_uploaded + lastCall.chunk_len
                 /\ post.upload_failures = pre.upload_failures
              \/ /\ lastCall.ret < 0
                 /\ post.upload_failures = pre.upload_failures + 1
                 /\ post.chunks_uploaded = pre.chunks_uploaded
                 /\ post.bytes_uploaded = pre.bytes_uploaded

\* A successful upload after a failed one, both counted.
C39_Witness ==
    /\ lastCall.op = "uploader_callback"
    /\ lastCall.valid
    /\ lastCall.ret = 0
    /\ uploader.stats.chunks_uploaded >= 1
    /\ uploader.stats.upload_failures >= 1
    /\ uploader.stats.bytes_uploaded = lastCall.pre.bytes_uploaded + lastCall.chunk_len

====
